---- MODULE Spec2Model ----
(***************************************************************************)
(* Collectors of Unraid-Monitor (app/collectors/*.py) as state machines.   *)
(* Every collector is an independent task; a tick is fetch() followed by   *)
(* parse() of what fetch() returned.  A fetch suspends at every awaited    *)
(* upstream call, so an upstream call and its reply are separate steps.    *)
(***************************************************************************)
EXTENDS Integers, Sequences, FiniteSets, TLC

(***************************************************************************)
(* Bounds of the model.                                                    *)
(***************************************************************************)
MaxTicks == 3

(***************************************************************************)
(* JSON values, tagged by kind.                                            *)
(***************************************************************************)
Missing == [k |-> "missing"]
JNull == [k |-> "null"]
JStr(s) == [k |-> "str", s |-> s]
JNum(n) == [k |-> "num", n |-> n]
JList(l) == [k |-> "list", l |-> l]
JBool(b) == [k |-> "bool", b |-> b]

\* Python truthiness of a JSON value (absent keys are handled by the caller).
Truthy(v) ==
    CASE v.k = "missing" -> FALSE
      [] v.k = "null" -> FALSE
      [] v.k = "str" -> v.s # ""
      [] v.k = "num" -> v.n # 0
      [] v.k = "list" -> Len(v.l) > 0
      [] v.k = "bool" -> v.b
      [] v.k = "dict" -> ~v.empty
      [] OTHER -> TRUE

\* dict.get(key, default): the default only replaces an absent key.
GetOr(v, default) == IF v.k = "missing" THEN default ELSE v

\* The result of a parse() call: it raised, or it returned updates.
Returned(updates) == [raised |-> FALSE, updates |-> updates]
Raised == [raised |-> TRUE, updates |-> <<>>]

Max(a, b) == IF a >= b THEN a ELSE b

\* An HTTP reply of the legacy endpoint, or the exception http_get raised.
HttpExc == [kind |-> "exc", status |-> 0, body |-> Missing]
Http(status, body) == [kind |-> "http", status |-> status, body |-> body]
BadJson == [k |-> "badjson"]

\* Two statement blocks in sequence.
Then(a, b) ==
    IF a.raised \/ b.raised THEN Raised ELSE Returned(a.updates \o b.updates)

(***************************************************************************)
(* EntityUpdate (app/collectors/base.py, used by every parse()).           *)
(***************************************************************************)
EntityUpdate(sensor_type, name, state, attributes, retain, expire_after, suffix) ==
    [sensor_type |-> sensor_type, name |-> name, state |-> state,
     attributes |-> attributes, retain |-> retain,
     expire_after |-> expire_after, unique_id_suffix |-> suffix]

NoAttributes == [none |-> TRUE]

\* float(value): the number, or a failure (ValueError / TypeError).
NumericStrings == {"42", "45", "0"}
StrToNum(s) == CASE s = "42" -> 42 [] s = "45" -> 45 [] OTHER -> 0
FloatOk(v) ==
    \/ v.k = "num"
    \/ v.k = "bool"
    \/ v.k = "str" /\ v.s \in NumericStrings
FloatOf(v) ==
    CASE v.k = "num" -> v.n
      [] v.k = "bool" -> IF v.b THEN 1 ELSE 0
      [] OTHER -> StrToNum(v.s)

(***************************************************************************)
(* CoralTPUCollector (coral_tpu.py).                                       *)
(***************************************************************************)
\* ENDPOINT_PATHS, by position in the list.
NumEndpoints == 3
ENDPOINT_PATHS == 1 .. NumEndpoints

\* A JSON object of the coral_status endpoint.  "other" stands for keys
\* besides pcie and usb; the object is empty when it has no key at all.
CoralDict(pcie, usb, other) ==
    [k |-> "dict", pcie |-> pcie, usb |-> usb,
     empty |-> (pcie.k = "missing" /\ usb.k = "missing" /\ ~other)]
EmptyDict == CoralDict(Missing, Missing, FALSE)

PcieDevice(id, temp_c, throttle_state) ==
    [k |-> "dict", empty |-> FALSE, id |-> id, temp_c |-> temp_c,
     throttle_state |-> throttle_state]
UsbDevice(id, initialized) ==
    [k |-> "dict", empty |-> FALSE, id |-> id, initialized |-> initialized]

\* device_id.replace('apex_', '')
StripApex(id) ==
    CASE id = "apex_0" -> "0"
      [] id = "apex_1" -> "1"
      [] OTHER -> id

\* state_labels.get(throttle_state, throttle_state)
ThrottleLabel(t) ==
    CASE t = "normal" -> "Normal"
      [] t = "throttled_250" -> "Throttled (250 MHz)"
      [] t = "throttled_125" -> "Throttled (125 MHz)"
      [] t = "throttled_62" -> "Throttled (62.5 MHz)"
      [] t = "shutdown_risk" -> "Critical - Shutdown Risk"
      [] OTHER -> t

\* max(self.interval * 2, 60)
CoralExpireAfter(interval) == JNum(Max(interval * 2, 60))

\* The body of `for device in pcie_devices` for one element.
CoralPcieUpdates(device, interval) ==
    IF device.k # "dict" THEN Returned(<<>>)
    ELSE LET idv == GetOr(device.id, JStr("unknown"))
         IN IF idv.k # "str" THEN Raised  \* .replace on a non-string id
            ELSE
            LET device_num == StripApex(idv.s)
                temp_c == device.temp_c
                tempU ==
                    IF temp_c.k \notin {"missing", "null"} /\ FloatOk(temp_c)
                    THEN << EntityUpdate("sensor",
                               <<"Coral TPU", device_num, "Temperature">>,
                               JNum(FloatOf(temp_c)), [type |-> "pcie"], FALSE,
                               CoralExpireAfter(interval),
                               <<"coral_pcie", device_num, "temp">>) >>
                    ELSE <<>>
                throttle == GetOr(device.throttle_state, JStr("unknown"))
                statusU ==
                    IF Truthy(throttle) /\ throttle # JStr("unknown")
                    THEN << EntityUpdate("sensor",
                               <<"Coral TPU", device_num, "Status">>,
                               IF throttle.k = "str"
                               THEN JStr(ThrottleLabel(throttle.s)) ELSE throttle,
                               [raw_state |-> throttle, temp_c |-> temp_c], FALSE,
                               CoralExpireAfter(interval),
                               <<"coral_pcie", device_num, "status">>) >>
                    ELSE <<>>
                presenceU ==
                    << EntityUpdate("binary_sensor", <<"Coral TPU", device_num>>,
                          JStr("ON"), [type |-> "pcie", id |-> idv], TRUE, JNull,
                          <<"coral_pcie", device_num, "presence">>) >>
            IN Returned(tempU \o statusU \o presenceU)

\* The body of `for idx, device in enumerate(usb_devices)` for one element.
CoralUsbUpdates(idx, device, interval) ==
    IF device.k # "dict" THEN <<>>
    ELSE LET device_num == ToString(idx)
             idv == GetOr(device.id, JStr("usb_coral_" \o device_num))
             initialized == Truthy(GetOr(device.initialized, JBool(FALSE)))
         IN << EntityUpdate("binary_sensor", <<"Coral USB", device_num>>,
                  JStr("ON"), [type |-> "usb", id |-> idv], TRUE, JNull,
                  <<"coral_usb", device_num, "presence">>),
               EntityUpdate("binary_sensor",
                  <<"Coral USB", device_num, "Initialized">>,
                  JStr(IF initialized THEN "ON" ELSE "OFF"),
                  [type |-> "usb"], FALSE, CoralExpireAfter(interval),
                  <<"coral_usb", device_num, "initialized">>) >>

\* `for device in pcie_devices`: the updates of every element in order, or the
\* exception of the first element that raises.
RECURSIVE CoralPcieLoop(_, _)
CoralPcieLoop(devices, interval) ==
    IF devices = <<>> THEN Returned(<<>>)
    ELSE Then(CoralPcieUpdates(Head(devices), interval),
              CoralPcieLoop(Tail(devices), interval))

RECURSIVE CoralUsbLoop(_, _, _)
CoralUsbLoop(idx, devices, interval) ==
    IF devices = <<>> THEN <<>>
    ELSE CoralUsbUpdates(idx, Head(devices), interval)
           \o CoralUsbLoop(idx + 1, Tail(devices), interval)

\* The summary sensor: `total_count > 0 or self._endpoint`; d.get raises on
\* an element that is not an object.
CoralSummary(pcie, usb, endpoint, interval) ==
    LET total_count == Len(pcie) + Len(usb)
    IN IF ~(total_count > 0 \/ endpoint # 0) THEN Returned(<<>>)
       ELSE IF \E i \in 1 .. Len(pcie) : pcie[i].k # "dict" THEN Raised
       ELSE IF \E i \in 1 .. Len(usb) : usb[i].k # "dict" THEN Raised
       ELSE Returned(<< EntityUpdate("sensor", <<"Coral TPU Count">>,
                          JNum(total_count),
                          [pcie_count |-> Len(pcie), usb_count |-> Len(usb)],
                          FALSE, CoralExpireAfter(interval),
                          <<"coral_tpu_count">>) >>)

\* CoralTPUCollector.parse(data), reading self._endpoint and self.interval.
CoralParse(data, endpoint, interval) ==
    IF data.k # "dict" THEN Returned(<<>>)
    ELSE LET pcie_devices == GetOr(data.pcie, JList(<<>>))
             usb_devices == GetOr(data.usb, JList(<<>>))
         IN IF pcie_devices.k # "list" \/ usb_devices.k # "list"
            THEN Raised  \* iterating or len() of a value that is no list
            ELSE Then(Then(CoralPcieLoop(pcie_devices.l, interval),
                           Returned(CoralUsbLoop(0, usb_devices.l, interval))),
                      CoralSummary(pcie_devices.l, usb_devices.l, endpoint,
                                   interval))

\* What fetch() returns for the reply of the data request (lines 64-96).
CoralFetchResult(r) ==
    IF r.kind = "exc" THEN EmptyDict
    ELSE IF r.status = 404 THEN EmptyDict
    ELSE IF r.status # 200 THEN EmptyDict
    ELSE IF r.body.k = "badjson" THEN EmptyDict
    ELSE IF ~Truthy(r.body) THEN EmptyDict
    ELSE IF r.body.k # "dict" THEN EmptyDict  \* data.get raises, caught
    ELSE IF GetOr(r.body.pcie, JList(<<>>)).k # "list" THEN EmptyDict  \* len(None)
    ELSE IF GetOr(r.body.usb, JList(<<>>)).k # "list" THEN EmptyDict
    ELSE r.body

\* _discover_endpoint's test of one probe reply (lines 369-383).
CoralAcceptedAnyJson(r) ==
    /\ r.kind = "http"
    /\ r.status = 200
    /\ r.body.k # "badjson"
CoralAccepted(r) ==
    /\ r.kind = "http"
    /\ r.status = 200
    /\ r.body.k = "dict"

CoralPayloads ==
    { CoralDict(JList(<< PcieDevice(JStr("apex_0"), JNum(45), JStr("normal")) >>),
                JList(<< UsbDevice(JStr("usb_a"), JBool(TRUE)) >>), FALSE),
      CoralDict(JList(<<>>), JList(<<>>), FALSE),
      CoralDict(Missing, JList(<< UsbDevice(JStr("usb_b"), JBool(FALSE)),
                                  UsbDevice(JStr("usb_a"), JBool(TRUE)) >>), FALSE),
      CoralDict(JNull, Missing, FALSE) }

ProbeReplies ==
    { HttpExc, Http(404, BadJson), Http(500, BadJson), Http(200, BadJson),
      Http(200, JList(<<>>)), Http(200, EmptyDict) }

CoralDataReplies ==
    { HttpExc, Http(404, BadJson), Http(401, BadJson), Http(200, BadJson),
      Http(200, JNull), Http(200, JList(<< JNum(1) >>)), Http(200, EmptyDict) }
      \cup { Http(200, p) : p \in CoralPayloads }

Pending == [kind |-> "pending", status |-> 0, body |-> Missing]

\* Invocations of one collector's fetch() that may be in flight together.
Invocations == {"a", "b"}

Intervals == {5, 45}

VARIABLES
    coral_legacy_ctx,        \* self.legacy_ctx is set
    coral_interval,          \* self.interval
    coral_endpoint,          \* self._endpoint: 0 is None, else an ENDPOINT_PATHS index
    coral_endpoint_checked,  \* self._endpoint_checked
    coral_pc,                \* per invocation: "idle", "probe" or "data"
    coral_cand,              \* per invocation: the candidate being probed
    coral_tick,              \* per invocation: the tick it serves
    coral_exc,               \* per invocation: its last upstream call raised
    coral_ticks,             \* fetch() calls started
    coral_probes,            \* discovery probes issued: [tick, cand, reply]
    coral_data_reqs,         \* data requests issued, by tick
    coral_skip_log,          \* severities logged for the missing legacy context
    tick_last,               \* the last completed tick: collector, raw, updates
    parse_call               \* the last direct parse() call

coralVars ==
    << coral_legacy_ctx, coral_interval, coral_endpoint, coral_endpoint_checked,
       coral_pc, coral_cand, coral_tick, coral_exc, coral_ticks, coral_probes,
       coral_data_reqs, coral_skip_log >>

NoTick == [coll |-> "none", tick |-> 0, fetch_raised |-> FALSE, api_up |-> FALSE]

\* One tick of the runner: parse() applied to what fetch() returned.
Tick(coll, tick, raw, fetch_raised, out) ==
    [coll |-> coll, tick |-> tick, raw |-> raw, fetch_raised |-> fetch_raised,
     api_up |-> ~fetch_raised, out |-> out]
NoParseCall == [coll |-> "none"]

CoralInit ==
    /\ coral_legacy_ctx \in BOOLEAN
    /\ coral_interval \in Intervals
    /\ coral_endpoint = 0
    /\ coral_endpoint_checked = FALSE
    /\ coral_pc = [i \in Invocations |-> "idle"]
    /\ coral_cand = [i \in Invocations |-> 0]
    /\ coral_tick = [i \in Invocations |-> 0]
    /\ coral_exc = [i \in Invocations |-> FALSE]
    /\ coral_ticks = 0
    /\ coral_probes = <<>>
    /\ coral_data_reqs = <<>>
    /\ coral_skip_log = <<>>

\* fetch() returns `raw` and the tick parses it (parse reads self._endpoint).
CoralReturn(i, tick, raw, exc, endpoint) ==
    /\ coral_pc' = [coral_pc EXCEPT ![i] = "idle"]
    /\ coral_cand' = [coral_cand EXCEPT ![i] = 0]
    /\ coral_tick' = [coral_tick EXCEPT ![i] = 0]
    /\ coral_exc' = [coral_exc EXCEPT ![i] = FALSE]
    /\ tick_last' = Tick("coral_tpu", tick, raw, exc,
                          CoralParse(raw, endpoint, coral_interval))

\* Lines 61-66: no endpoint returns {}, else the data request is issued.
CoralUseEndpoint(i, tick, exc, endpoint) ==
    IF endpoint = 0
    THEN /\ CoralReturn(i, tick, EmptyDict, exc, endpoint)
         /\ UNCHANGED coral_data_reqs
    ELSE /\ coral_pc' = [coral_pc EXCEPT ![i] = "data"]
         /\ coral_cand' = [coral_cand EXCEPT ![i] = 0]
         /\ coral_tick' = [coral_tick EXCEPT ![i] = tick]
         /\ coral_exc' = [coral_exc EXCEPT ![i] = exc]
         /\ coral_data_reqs' = Append(coral_data_reqs, tick)
         /\ UNCHANGED tick_last

\* `if not self._endpoint_checked` (line 57).
CoralNeedsDiscoveryUnresolved == coral_endpoint = 0
CoralNeedsDiscoveryAlways == TRUE
CoralNeedsDiscovery == ~coral_endpoint_checked

\* fetch() up to its first await (lines 48-66).
CoralFetchStart(i) ==
    /\ coral_pc[i] = "idle"
    /\ coral_ticks < MaxTicks
    /\ coral_ticks' = coral_ticks + 1
    /\ IF ~coral_legacy_ctx
       THEN /\ coral_skip_log' = Append(coral_skip_log, "debug")
            /\ CoralReturn(i, coral_ticks + 1, EmptyDict, FALSE, coral_endpoint)
            /\ UNCHANGED << coral_probes, coral_data_reqs >>
       ELSE IF CoralNeedsDiscovery
       THEN /\ coral_pc' = [coral_pc EXCEPT ![i] = "probe"]
            /\ coral_cand' = [coral_cand EXCEPT ![i] = 1]
            /\ coral_tick' = [coral_tick EXCEPT ![i] = coral_ticks + 1]
            /\ coral_exc' = [coral_exc EXCEPT ![i] = FALSE]
            /\ coral_probes' = Append(coral_probes,
                   [tick |-> coral_ticks + 1, cand |-> 1, reply |-> Pending])
            /\ UNCHANGED << coral_skip_log, coral_data_reqs, tick_last >>
       ELSE /\ CoralUseEndpoint(i, coral_ticks + 1, FALSE, coral_endpoint)
            /\ UNCHANGED << coral_skip_log, coral_probes >>
    /\ UNCHANGED << coral_legacy_ctx, coral_interval, coral_endpoint,
                    coral_endpoint_checked >>

\* The probe log with the reply of invocation i's probe in flight filled in.
CoralProbeAnswered(i, r) ==
    [j \in 1 .. Len(coral_probes) |->
        IF /\ coral_probes[j].tick = coral_tick[i]
           /\ coral_probes[j].cand = coral_cand[i]
           /\ coral_probes[j].reply = Pending
        THEN [coral_probes[j] EXCEPT !.reply = r]
        ELSE coral_probes[j]]

\* _discover_endpoint resumes with the reply of a probe (lines 364-385), then
\* fetch() continues (lines 59-66).
CoralProbeReply(i, r) ==
    /\ coral_pc[i] = "probe"
    /\ LET exc == r.kind = "exc"
           answered == CoralProbeAnswered(i, r)
       IN /\ IF CoralAccepted(r)
             THEN /\ coral_endpoint' = coral_cand[i]
                  /\ coral_endpoint_checked' = TRUE
                  /\ coral_probes' = answered
                  /\ CoralUseEndpoint(i, coral_tick[i], exc, coral_cand[i])
             ELSE IF coral_cand[i] < NumEndpoints
             THEN /\ coral_cand' = [coral_cand EXCEPT ![i] = coral_cand[i] + 1]
                  /\ coral_exc' = [coral_exc EXCEPT ![i] = exc]
                  /\ coral_probes' = Append(answered,
                         [tick |-> coral_tick[i], cand |-> coral_cand[i] + 1,
                          reply |-> Pending])
                  /\ UNCHANGED << coral_endpoint, coral_endpoint_checked, coral_pc,
                                  coral_tick, coral_data_reqs, tick_last >>
             ELSE /\ coral_endpoint_checked' = TRUE
                  /\ coral_probes' = answered
                  /\ CoralUseEndpoint(i, coral_tick[i], exc, coral_endpoint)
                  /\ UNCHANGED coral_endpoint
    /\ UNCHANGED << coral_legacy_ctx, coral_interval, coral_ticks, coral_skip_log >>

\* A fetch() that forgets the endpoint when the data request answers 404.
CoralEndpointClearedOn404(r) ==
    IF r.kind = "http" /\ r.status = 404 THEN 0 ELSE coral_endpoint

\* self._endpoint after the data request: lines 66-96 do not assign it.
CoralEndpointAfterData(r) == coral_endpoint

\* fetch() resumes with the reply of the data request (lines 66-96).
CoralDataReply(i, r) ==
    /\ coral_pc[i] = "data"
    /\ coral_endpoint' = CoralEndpointAfterData(r)
    /\ CoralReturn(i, coral_tick[i], CoralFetchResult(r), r.kind = "exc",
                   CoralEndpointAfterData(r))
    /\ UNCHANGED << coral_legacy_ctx, coral_interval,
                    coral_endpoint_checked, coral_ticks, coral_probes,
                    coral_data_reqs, coral_skip_log >>

\* parse() called on its own with any payload.
CoralParseInputs ==
    { EmptyDict, JList(<<>>), CoralDict(Missing, Missing, TRUE),
      CoralDict(JList(<<>>), Missing, FALSE), CoralDict(JNull, Missing, FALSE) }
      \cup CoralPayloads

\* Payloads whose device lists hold objects and entries that are no objects.
CoralListEntries(device) == { device, JStr("x"), JNull }
CoralLists(device) ==
    { Missing, JList(<<>>) }
      \cup { JList(<< a >>) : a \in CoralListEntries(device) }
      \cup { JList(<< a, b >>) : a, b \in CoralListEntries(device) }
CoralListPayloads ==
    { CoralDict(p, u, FALSE) :
        p \in CoralLists(PcieDevice(JStr("apex_0"), JNum(45), JStr("normal"))),
        u \in CoralLists(UsbDevice(JStr("usb_a"), JBool(TRUE))) }

CoralParseCall(data) ==
    /\ \A i \in Invocations : coral_pc[i] = "idle"
    /\ parse_call' = [coll |-> "coral_tpu", data |-> data,
                      out |-> CoralParse(data, coral_endpoint, coral_interval)]
    /\ UNCHANGED << coralVars, tick_last >>

\* The runner starts a tick only when the previous tick of the collector is over.
CoralTick(i) ==
    /\ \A j \in Invocations : coral_pc[j] = "idle"
    /\ CoralFetchStart(i)

(***************************************************************************)
(* MemoryCollector (memory.py).  Byte counts are kept in MiB.              *)
(***************************************************************************)
MiBPerGiB == 1024

\* The queries of MemoryCollector._queries, by position.
NumQueries == 3
MemQueries == 1 .. NumQueries

MemNoFields ==
    [k |-> "dict", empty |-> TRUE, total |-> Missing, used |-> Missing,
     free |-> Missing, available |-> Missing, totalBytes |-> Missing,
     usedBytes |-> Missing, freeBytes |-> Missing, availableBytes |-> Missing,
     system |-> Missing, vm |-> Missing, docker |-> Missing]

\* {"total": .., "used": ..}
MemTotalUsed(total, used) ==
    [MemNoFields EXCEPT !.empty = FALSE, !.total = total, !.used = used]
\* {"total": .., "used": .., "free": .., "system": .., "vm": .., "docker": ..}
MemDashboard(total, used, free, system, vm, docker) ==
    [MemNoFields EXCEPT !.empty = FALSE, !.total = total, !.used = used,
                        !.free = free, !.system = system, !.vm = vm,
                        !.docker = docker]
\* {"totalBytes": .., "usedBytes": .., "freeBytes": ..}
MemOs(total, used, free) ==
    [MemNoFields EXCEPT !.empty = FALSE, !.totalBytes = total,
                        !.usedBytes = used, !.freeBytes = free]

\* The payload fetch() returns: {} or {'source': .., 'data': ..}.
MemEmpty == [k |-> "dict", empty |-> TRUE, source |-> Missing, data |-> Missing]
MemRaw(source, data) ==
    [k |-> "dict", empty |-> FALSE, source |-> JStr(source), data |-> data]

\* A result of gql.query: an object with the keys info, dashboard, os.
GqlResult(info, dashboard, os) ==
    [k |-> "dict", info |-> info, dashboard |-> dashboard, os |-> os,
     empty |-> (info.k = "missing" /\ dashboard.k = "missing" /\ os.k = "missing")]
WithMemory(memory) == [k |-> "dict", empty |-> FALSE, memory |-> memory]
\* A result whose only key is memory: {"memory": {..}}.
GqlMemoryOnly(memory) ==
    [k |-> "dict", info |-> Missing, dashboard |-> Missing, os |-> Missing,
     memory |-> memory, empty |-> FALSE]
GqlExc == [kind |-> "exc"]
GqlOk(result) == [kind |-> "result", v |-> result]

\* `a or b`
Or(a, b) == IF Truthy(a) THEN a ELSE b

\* _to_bytes: int(value), else int(float(value)), else 0.
ToBytes(v) == IF FloatOk(v) THEN FloatOf(v) ELSE 0

\* round(num / den, 0) as Python rounds: to nearest, ties to even.
RoundHalfEven(num, den) ==
    LET q == num \div den
        r == num % den
    IN IF 2 * r < den THEN q
       ELSE IF 2 * r > den THEN q + 1
       ELSE IF q % 2 = 0 THEN q ELSE q + 1

\* _bytes_to_gib without its test for bytes_val <= 0.
BytesToGibSigned(mib) == RoundHalfEven(mib * 100, MiBPerGiB)

\* _bytes_to_gib, in hundredths of a GiB: round(bytes / 1024**3, 2).
BytesToGib(mib) ==
    IF mib <= 0 THEN 0 ELSE RoundHalfEven(mib * 100, MiBPerGiB)

\* max(self.interval * 3, 120)
MemExpireAfter(interval) == JNum(Max(interval * 3, 120))

\* One branch of _extract_memory_data: result[key].get('memory').
MemBranch(v) ==
    IF v.k = "missing" \/ ~Truthy(v) THEN Missing
    ELSE IF v.k # "dict" THEN [k |-> "raise"]
    ELSE IF Truthy(v.memory) /\ v.memory.k = "dict" THEN v.memory
    ELSE Missing

\* _extract_memory_data without its info.memory branch.
ExtractMemoryDataNoInfo(result) ==
    IF ~Truthy(result) THEN Missing
    ELSE LET d == MemBranch(result.dashboard)
             o == MemBranch(result.os)
         IN IF d.k # "missing" THEN d ELSE o

\* _extract_memory_data(result): the memory object, Missing for None, or the
\* exception of .get on a value that is no object.
ExtractMemoryData(result) ==
    IF ~Truthy(result) THEN Missing
    ELSE LET i == MemBranch(result.info)
             d == MemBranch(result.dashboard)
             o == MemBranch(result.os)
         IN IF i.k # "missing" THEN i
            ELSE IF d.k # "missing" THEN d
            ELSE o

\* MemoryCollector.parse(data), reading self.interval.
MemParse(data, interval) ==
    IF ~Truthy(data) THEN Returned(<<>>)
    ELSE
    LET source == GetOr(data.source, JStr("unknown"))
        mem_data == GetOr(data.data, MemNoFields)
    IN IF ~Truthy(mem_data) THEN Returned(<<>>)
       ELSE IF mem_data.k # "dict" THEN Raised
       ELSE
       LET total_bytes == ToBytes(Or(mem_data.total, GetOr(mem_data.totalBytes, JNum(0))))
           used_bytes == ToBytes(Or(mem_data.used, GetOr(mem_data.usedBytes, JNum(0))))
           free_given == ToBytes(Or(mem_data.free, GetOr(mem_data.freeBytes, JNum(0))))
           available_bytes ==
               ToBytes(Or(mem_data.available, GetOr(mem_data.availableBytes, JNum(0))))
           system_bytes == ToBytes(GetOr(mem_data.system, JNum(0)))
           vm_bytes == ToBytes(GetOr(mem_data.vm, JNum(0)))
           docker_bytes == ToBytes(GetOr(mem_data.docker, JNum(0)))
           free_bytes ==
               IF free_given = 0 /\ total_bytes > 0 /\ used_bytes > 0
               THEN total_bytes - used_bytes ELSE free_given
           total_gib == BytesToGib(total_bytes)
           Sensor(name, state, bytes, retain, suffix) ==
               EntityUpdate("sensor", <<name>>, JNum(state),
                            [bytes |-> bytes, source |-> source], retain,
                            MemExpireAfter(interval), <<suffix>>)
           main ==
               IF total_gib > 0
               THEN << Sensor("Memory Total", total_gib, total_bytes, TRUE,
                              "memory_total"),
                       Sensor("Memory Used", BytesToGib(used_bytes), used_bytes,
                              FALSE, "memory_used"),
                       Sensor("Memory Free", BytesToGib(free_bytes), free_bytes,
                              FALSE, "memory_free") >>
               ELSE <<>>
           Breakdown(name, bytes, suffix) ==
               IF bytes > 0
               THEN << Sensor(name, BytesToGib(bytes), bytes, FALSE, suffix) >>
               ELSE <<>>
       IN Returned(main \o Breakdown("Memory System", system_bytes, "memory_system")
                        \o Breakdown("Memory VM", vm_bytes, "memory_vm")
                        \o Breakdown("Memory Docker", docker_bytes, "memory_docker"))

\* The declared order, whatever the cached query.
MemQueryOrderDeclared(working) == <<1, 2, 3>>

\* The order in which _try_graphql_queries tries the queries (lines 56-60).
MemQueryOrder(working) ==
    IF working = 0 THEN <<1, 2, 3>>
    ELSE <<working>> \o SelectSeq(<<1, 2, 3>>, LAMBDA q : q # working)

\* What one query yields: the memory object, or Missing when the query raised,
\* returned nothing, or held no memory object (lines 63-73).
MemYield(reply) ==
    IF reply.kind = "exc" THEN Missing
    ELSE IF ~Truthy(reply.v) THEN Missing
    ELSE LET m == ExtractMemoryData(reply.v)
         IN IF m.k = "raise" THEN Missing ELSE m

MemGiB16 == MemTotalUsed(JNum(16384), JNum(8192))

\* What the server answers to query q when it supports it.
MemAnswer(q) ==
    CASE q = 1 -> GqlOk(GqlResult(WithMemory(MemGiB16), Missing, Missing))
      [] q = 2 -> GqlOk(GqlResult(Missing,
                        WithMemory(MemDashboard(JNum(16384), JNum(8192), JNum(0),
                                                JNum(1024), JNum(2048), JNum(0))),
                        Missing))
      [] OTHER -> GqlOk(GqlResult(Missing, Missing,
                        WithMemory(MemOs(JNum(16384), JNum(8192), JNum(8192)))))

\* What the server answers to a query it does not support.
MemUnsupported ==
    { GqlExc, GqlOk(GqlResult(Missing, Missing, Missing)),
      GqlOk(GqlResult(JNull, Missing, Missing)) }

\* A server that supports none of the queries and answers each of them
\* {"memory": {"total": .., "used": ..}}.
MemoryKeySchema == NumQueries + 1

\* The replies query q can get: every query raises while the API is
\* unreachable.
MemReplies(q, up, schema) ==
    IF ~up THEN {GqlExc}
    ELSE IF schema = MemoryKeySchema THEN {GqlOk(GqlMemoryOnly(MemGiB16))}
    ELSE IF q = schema THEN {MemAnswer(q)}
    ELSE MemUnsupported

\* psutil.virtual_memory() of the machine the monitor runs on, or its failure.
PsutilResults ==
    { [kind |-> "exc"],
      [kind |-> "mem", v |-> [MemNoFields EXCEPT !.empty = FALSE,
                                !.total = JNum(4096), !.used = JNum(1024),
                                !.free = JNum(2048), !.available = JNum(3072)]] }

VARIABLES
    gql_up,              \* the structured query API is reachable
    gql_schema,          \* the memory query the server supports (0: none)
    mem_interval,        \* self.interval
    mem_working_query,   \* self._working_query: 0 is None, else a query index
    mem_graphql_failed,  \* self._graphql_failed
    mem_pc,              \* "idle", or "query" while a query is awaited
    mem_order,           \* the queries still to try, the awaited one first
    mem_ticks,           \* fetch() calls made
    mem_queries,         \* the queries the current or last fetch() issued
    mem_all_raised       \* every query of the current or last fetch() raised

memVars ==
    << gql_up, gql_schema, mem_interval, mem_working_query, mem_graphql_failed,
       mem_pc, mem_order, mem_ticks, mem_queries, mem_all_raised >>

MemInit ==
    /\ gql_up \in BOOLEAN
    /\ gql_schema \in 0 .. MemoryKeySchema
    /\ mem_interval \in Intervals
    /\ mem_working_query = 0
    /\ mem_graphql_failed = FALSE
    /\ mem_pc = "idle"
    /\ mem_order = <<>>
    /\ mem_ticks = 0
    /\ mem_queries = <<>>
    /\ mem_all_raised = FALSE

\* _fetch_from_psutil (lines 105-123).
MemFromPsutil(ps) ==
    IF ps.kind = "exc" THEN MemEmpty ELSE MemRaw("psutil", ps.v)

\* fetch() returns `raw` and the tick parses it.
MemReturn(tick, raw, all_raised) ==
    /\ mem_pc' = "idle"
    /\ mem_order' = <<>>
    /\ tick_last' = [Tick("memory", tick, raw, all_raised,
                          MemParse(raw, mem_interval))
                       EXCEPT !.api_up = gql_up /\ gql_schema \in 1 .. NumQueries]

\* `if not self._graphql_failed` (line 46).
MemTriesGraphql == ~mem_graphql_failed

\* fetch() up to its first await (lines 43-64): the first query is issued, or
\* psutil is read at once.
MemFetchStart(ps) ==
    /\ mem_pc = "idle"
    /\ mem_ticks < MaxTicks
    /\ mem_ticks' = mem_ticks + 1
    /\ IF MemTriesGraphql
       THEN /\ mem_pc' = "query"
            /\ mem_order' = MemQueryOrder(mem_working_query)
            /\ mem_queries' = << Head(MemQueryOrder(mem_working_query)) >>
            /\ mem_all_raised' = TRUE
            /\ UNCHANGED tick_last
       ELSE /\ mem_queries' = <<>>
            /\ mem_all_raised' = FALSE
            /\ MemReturn(mem_ticks + 1, MemFromPsutil(ps), FALSE)
    /\ UNCHANGED << gql_up, gql_schema, mem_interval, mem_working_query,
                    mem_graphql_failed, parse_call >>

\* _try_graphql_queries resumes with the reply of the awaited query (lines
\* 62-78), and fetch() falls back to psutil when no query is left (line 52).
MemQueryReply(reply, ps) ==
    /\ mem_pc = "query"
    /\ LET q == Head(mem_order)
           m == MemYield(reply)
           all_raised == mem_all_raised /\ reply.kind = "exc"
       IN /\ mem_all_raised' = all_raised
          /\ IF m.k # "missing"
             THEN /\ mem_working_query' = q
                  /\ MemReturn(mem_ticks, MemRaw("graphql", m), all_raised)
                  /\ UNCHANGED << mem_graphql_failed, mem_queries >>
             ELSE IF Len(mem_order) > 1
             THEN /\ mem_order' = Tail(mem_order)
                  /\ mem_queries' = Append(mem_queries, mem_order[2])
                  /\ UNCHANGED << mem_working_query, mem_graphql_failed, mem_pc,
                                  tick_last >>
             ELSE /\ mem_graphql_failed' = TRUE
                  /\ MemReturn(mem_ticks, MemFromPsutil(ps), all_raised)
                  /\ UNCHANGED << mem_working_query, mem_queries >>
    /\ UNCHANGED << gql_up, gql_schema, mem_interval, mem_ticks, parse_call >>

\* The API becomes unreachable, or reachable again, between two ticks.
GqlAvailabilityChanges ==
    /\ mem_pc = "idle"
    /\ gql_up' = ~gql_up
    /\ UNCHANGED << gql_schema, mem_interval, mem_working_query,
                    mem_graphql_failed, mem_pc, mem_order, mem_ticks,
                    mem_queries, mem_all_raised, tick_last, parse_call >>

MemParseInputs ==
    { MemEmpty, MemRaw("graphql", MemNoFields), MemRaw("graphql", MemGiB16),
      MemRaw("graphql", MemOs(JNum(16384), JNum(8192), JNum(8192))),
      [MemEmpty EXCEPT !.empty = FALSE, !.source = JStr("graphql")] }

\* Payloads of parse() over a grid of total, used, free and system, in MiB:
\* totals on both sides of the first hundredth of a GiB, used above total.
MemGridPayloads ==
    { MemRaw("graphql",
             [MemNoFields EXCEPT !.empty = (t.k = "missing" /\ u.k = "missing"
                                            /\ f.k = "missing" /\ y.k = "missing"),
                                 !.total = t, !.used = u, !.free = f,
                                 !.system = y]) :
        t \in {Missing, JNum(0), JNum(5), JNum(6), JNum(16384)},
        u \in {Missing, JNum(0), JNum(-1), JNum(8192), JNum(20000)},
        f \in {Missing, JNull, JNum(0), JNum(4096)},
        y \in {Missing, JNum(512)} }

\* parse() called on its own with any payload.
MemParseCall(data) ==
    /\ mem_pc = "idle"
    /\ parse_call' = [coll |-> "memory", data |-> data,
                      out |-> MemParse(data, mem_interval)]
    /\ UNCHANGED << memVars, tick_last >>

(***************************************************************************)
(* GpuPluginCollector (gpu_plugin.py).                                     *)
(***************************************************************************)
\* A string made of a number and a unit suffix, such as "42%" or "65°C".
Qty(n, unit) == [k |-> "qty", n |-> n, unit |-> unit]

\* The strings is_valid rejects by name (line 84).
GpuInvalidStrings == {"N/A", "N\\/A", "Unknown", "unknown", ""}

\* An is_valid that only rejects None.
IsValidNotNone(v) == v.k \notin {"missing", "null"}

\* parse.is_valid (lines 80-94): '%', '°C', 'W' and ' ' are removed, then
\* the rest must convert with float().
IsValid(v) ==
    CASE v.k \in {"missing", "null"} -> FALSE
      [] v.k = "num" -> TRUE
      [] v.k = "qty" -> TRUE
      [] v.k = "str" -> v.s \notin GpuInvalidStrings /\ v.s \in NumericStrings
      [] OTHER -> FALSE

\* float(str(v).replace(unit, '').strip()) converts.
GpuConverts(v, unit) ==
    \/ v.k = "num"
    \/ v.k = "str" /\ v.s \in NumericStrings
    \/ v.k = "qty" /\ v.unit \in {"", unit}

\* int(float(str(v).replace(unit, '').strip())), or 0 when that raises
\* (lines 117-120, 163-166, 185-188, 207-210).
GpuIntOrZero(v, unit) ==
    IF ~GpuConverts(v, unit) THEN 0
    ELSE IF v.k = "qty" THEN v.n ELSE FloatOf(v)

\* A get_field that also passes over empty strings and zeros.
RECURSIVE GetFieldTruthy(_, _)
GetFieldTruthy(d, keys) ==
    IF keys = <<>> THEN JNull
    ELSE IF Truthy(d[Head(keys)]) THEN d[Head(keys)]
    ELSE GetFieldTruthy(d, Tail(keys))

\* parse.get_field (lines 96-101): the first key present with a value.
RECURSIVE GetField(_, _)
GetField(d, keys) ==
    IF keys = <<>> THEN JNull
    ELSE IF d[Head(keys)].k \notin {"missing", "null"} THEN d[Head(keys)]
    ELSE GetField(d, Tail(keys))

GpuNoFields ==
    [k |-> "dict", empty |-> FALSE, name |-> Missing, model |-> Missing,
     productname |-> Missing, util |-> Missing, gpuutil |-> Missing,
     utilization |-> Missing, load |-> Missing, memutil |-> Missing,
     memused |-> Missing, memtotal |-> Missing, fan |-> Missing,
     power |-> Missing, temp |-> Missing]

\* The stats object: gpu_id -> record, in the order of the JSON object.
GpuData(items) == [k |-> "dict", empty |-> (items = <<>>), items |-> items]
GpuItem(id, rec) == [id |-> id, rec |-> rec]
GpuEmpty == GpuData(<<>>)

\* max(self.interval * 2, 60)
\* max(self.interval, 60): the interval not doubled.
GpuExpireAfterOnce(interval) == JNum(Max(interval, 60))

GpuExpireAfter(interval) == JNum(Max(interval * 2, 60))

\* The body of `for gpu_id, gpu_data in data.items()` (lines 103-250).
GpuUpdates(item, interval) ==
    LET gpu_id == item.id
        g == item.rec
    IN IF g.k # "dict" THEN <<>>
       ELSE
       LET named == GetField(g, <<"name", "model", "productname">>)
           name == IF Truthy(named) THEN named ELSE JStr("GPU " \o gpu_id)
           util == GetField(g, <<"util", "gpuutil", "utilization", "load">>)
           Sensor(label, state, suffix) ==
               EntityUpdate("sensor", <<name, label>>, JNum(state), NoAttributes,
                            FALSE, GpuExpireAfter(interval), <<gpu_id, suffix>>)
           loadU == IF IsValid(util)
                    THEN << Sensor("Load", GpuIntOrZero(util, "%"), "load") >>
                    ELSE <<>>
           memU == IF /\ IsValid(g.memutil) /\ IsValid(g.memused)
                      /\ IsValid(g.memtotal)
                      /\ GpuConverts(g.memused, "") /\ GpuConverts(g.memtotal, "")
                      /\ GpuConverts(g.memutil, "%")
                   THEN << Sensor("Memory Usage", GpuIntOrZero(g.memutil, "%"),
                                  "mem") >>
                   ELSE <<>>
           fanU == IF IsValid(g.fan)
                   THEN << Sensor("Fan Speed", GpuIntOrZero(g.fan, "%"), "fan") >>
                   ELSE <<>>
           powerU == IF IsValid(g.power)
                     THEN << Sensor("Power Usage", GpuIntOrZero(g.power, "W"),
                                    "power") >>
                     ELSE <<>>
           tempU == IF IsValid(g.temp)
                    THEN << Sensor("Temperature", GpuIntOrZero(g.temp, "°C"),
                                   "temp") >>
                    ELSE <<>>
           summaryU == IF IsValid(util) /\ GpuConverts(util, "%")
                       THEN << Sensor("", GpuIntOrZero(util, "%"), "summary") >>
                       ELSE <<>>
       IN loadU \o memU \o fanU \o powerU \o tempU \o summaryU

RECURSIVE GpuLoop(_, _)
GpuLoop(items, interval) ==
    IF items = <<>> THEN <<>>
    ELSE GpuUpdates(Head(items), interval) \o GpuLoop(Tail(items), interval)

\* GpuPluginCollector.parse(data), reading self.interval.
GpuParse(data, interval) ==
    IF data.k # "dict" \/ ~Truthy(data) THEN Returned(<<>>)
    ELSE Returned(GpuLoop(data.items, interval))

\* _extract_balanced_json works on a text: a sequence of characters in which
\* an occurrence of the marker 'gpustat_statusm(' is one element.
Marker == "gpustat_statusm("
NoneValue == [k |-> "none"]
TextValue(t) == [k |-> "text", t |-> t]

\* text.find(c, from): the first index from `from` on that holds c, 0 for -1.
RECURSIVE Find(_, _, _)
Find(text, c, from) ==
    IF from > Len(text) THEN 0
    ELSE IF text[from] = c THEN from
    ELSE Find(text, c, from + 1)

\* A scan that counts the braces inside strings as well.
SkipsNever(in_string) == FALSE

\* `if in_string: continue` (lines 285-286).
SkipsInString(in_string) == in_string

\* The loop of _extract_balanced_json from index i on (lines 272-293): the
\* index of the closing brace, 0 when the text ends first.
RECURSIVE BalancedScan(_, _, _, _, _)
BalancedScan(text, i, depth, in_string, escape_next) ==
    IF i > Len(text) THEN 0
    ELSE LET char == text[i]
         IN IF escape_next
            THEN BalancedScan(text, i + 1, depth, in_string, FALSE)
            ELSE IF char = "\\" /\ in_string
            THEN BalancedScan(text, i + 1, depth, in_string, TRUE)
            ELSE IF char = "\""
            THEN BalancedScan(text, i + 1, depth, ~in_string, FALSE)
            ELSE IF SkipsInString(in_string)
            THEN BalancedScan(text, i + 1, depth, in_string, FALSE)
            ELSE IF char = "{"
            THEN BalancedScan(text, i + 1, depth + 1, in_string, FALSE)
            ELSE IF char = "}"
            THEN IF depth - 1 = 0 THEN i
                 ELSE BalancedScan(text, i + 1, depth - 1, in_string, FALSE)
            ELSE BalancedScan(text, i + 1, depth, in_string, FALSE)

\* _extract_balanced_json(text, start_marker) (lines 254-295).
ExtractBalancedJson(text) ==
    LET idx == Find(text, Marker, 1)
    IN IF idx = 0 THEN NoneValue
       ELSE LET brace_start == Find(text, "{", idx + 1)
            IN IF brace_start = 0 THEN NoneValue
               ELSE LET end == BalancedScan(text, brace_start, 0, FALSE, FALSE)
                    IN IF end = 0 THEN NoneValue
                       ELSE TextValue(SubSeq(text, brace_start, end))

\* What /Dashboard holds: whether the text has gpustat_statusm, and what the
\* balanced-brace extraction and json.loads make of it.
Html(marker, json) == [k |-> "html", marker |-> marker, json |-> json]
NoExtract == [k |-> "noextract"]

\* A discovery that keeps every JSON object, the empty one too.
GpuDiscoveredAnyObject(r) ==
    IF r.kind = "exc" THEN NoneValue
    ELSE IF r.status # 200 THEN NoneValue
    ELSE IF ~r.body.marker THEN NoneValue
    ELSE IF r.body.json.k = "dict" THEN r.body.json
    ELSE NoneValue

\* The GPU map _discover_gpus leaves in self.gpus for a reply (lines 304-359),
\* self.gpus being None before.
GpuDiscovered(r) ==
    IF r.kind = "exc" THEN NoneValue
    ELSE IF r.status # 200 THEN NoneValue
    ELSE IF ~r.body.marker THEN NoneValue
    ELSE IF r.body.json.k \in {"noextract", "badjson"} THEN NoneValue
    ELSE IF r.body.json.k = "dict" /\ ~r.body.json.empty THEN r.body.json
    ELSE NoneValue

\* What fetch() returns for the reply of the stats request (lines 44-73).
GpuFetchResult(r) ==
    IF r.kind = "exc" THEN GpuEmpty
    ELSE IF r.status # 200 THEN GpuEmpty
    ELSE IF r.body.k = "badjson" THEN GpuEmpty
    ELSE IF ~Truthy(r.body) THEN GpuEmpty
    ELSE IF r.body.k # "dict" THEN GpuEmpty  \* data.keys() raises, caught
    ELSE r.body

GpuMap == GpuData(<< GpuItem("gpu0", GpuNoFields) >>)
GpuMapOfTwo ==
    GpuData(<< GpuItem("gpu0", GpuNoFields), GpuItem("gpu1", GpuNoFields) >>)

DashboardReplies ==
    { HttpExc, Http(401, Html(FALSE, NoExtract)), Http(200, Html(FALSE, NoExtract)),
      Http(200, Html(TRUE, NoExtract)), Http(200, Html(TRUE, BadJson)),
      Http(200, Html(TRUE, GpuEmpty)), Http(200, Html(TRUE, JList(<<>>))),
      Http(200, Html(TRUE, GpuMap)), Http(200, Html(TRUE, GpuMapOfTwo)) }

GpuPayloads ==
    { GpuData(<< GpuItem("gpu0", [GpuNoFields EXCEPT !.name = JStr("RTX"),
                                     !.util = Qty(42, "%"), !.temp = JStr("N/A")]) >>),
      GpuData(<< GpuItem("gpu0", [GpuNoFields EXCEPT !.util = Qty(42, "%"),
                                     !.temp = Qty(65, "°C"), !.fan = Qty(30, "%"),
                                     !.power = Qty(120, "W")]),
                 GpuItem("gpu1", JStr("error")) >>) }

GpuStatsReplies ==
    { HttpExc, Http(401, BadJson), Http(500, BadJson), Http(200, BadJson),
      Http(200, JNull), Http(200, JList(<< JNum(1) >>)), Http(200, GpuEmpty) }
      \cup { Http(200, p) : p \in GpuPayloads }

\* A 401 or 403: the upstream rejected the session the request was made with.
AuthRejected(r) == r.kind = "http" /\ r.status \in {401, 403}

VARIABLES
    gpu_legacy_ctx,      \* self.legacy_ctx is set
    gpu_interval,        \* self.interval
    gpu_gpus,            \* self.gpus: NoneValue, or the discovered GPU map
    gpu_pc,              \* "idle", "dashboard" or "stats"
    gpu_ticks,           \* fetch() calls started
    gpu_dashboard_reqs,  \* /Dashboard requests issued, by tick
    gpu_stats_reqs,      \* stats requests issued: [tick, reply]
    gpu_skip_log         \* severities logged for the missing legacy context

gpuVars ==
    << gpu_legacy_ctx, gpu_interval, gpu_gpus, gpu_pc, gpu_ticks,
       gpu_dashboard_reqs, gpu_stats_reqs, gpu_skip_log >>

GpuInit ==
    /\ gpu_legacy_ctx \in BOOLEAN
    /\ gpu_interval \in Intervals
    /\ gpu_gpus = NoneValue
    /\ gpu_pc = "idle"
    /\ gpu_ticks = 0
    /\ gpu_dashboard_reqs = <<>>
    /\ gpu_stats_reqs = <<>>
    /\ gpu_skip_log = <<>>

\* fetch() returns `raw` and the tick parses it.
GpuReturn(tick, raw, exc) ==
    /\ gpu_pc' = "idle"
    /\ tick_last' = Tick("gpu_plugin", tick, raw, exc, GpuParse(raw, gpu_interval))

\* Lines 41-50: without a GPU map return {}, else issue the stats request.
GpuUseMap(tick, gpus, exc) ==
    IF gpus = NoneValue \/ ~Truthy(gpus)
    THEN /\ GpuReturn(tick, GpuEmpty, exc)
         /\ UNCHANGED gpu_stats_reqs
    ELSE /\ gpu_pc' = "stats"
         /\ gpu_stats_reqs' = Append(gpu_stats_reqs,
                                     [tick |-> tick, reply |-> Pending])
         /\ UNCHANGED tick_last

\* The severity of the missing-context message (line 36).
GpuSkipSeverity == "warning"

\* `if self.gpus is None` (line 39).
GpuNeedsDiscovery == gpu_gpus = NoneValue

\* fetch() up to its first await (lines 31-50).
GpuFetchStart ==
    /\ gpu_pc = "idle"
    /\ gpu_ticks < MaxTicks
    /\ gpu_ticks' = gpu_ticks + 1
    /\ IF ~gpu_legacy_ctx
       THEN /\ gpu_skip_log' = Append(gpu_skip_log, GpuSkipSeverity)
            /\ GpuReturn(gpu_ticks + 1, GpuEmpty, FALSE)
            /\ UNCHANGED << gpu_dashboard_reqs, gpu_stats_reqs >>
       ELSE IF GpuNeedsDiscovery
       THEN /\ gpu_pc' = "dashboard"
            /\ gpu_dashboard_reqs' = Append(gpu_dashboard_reqs, gpu_ticks + 1)
            /\ UNCHANGED << gpu_skip_log, gpu_stats_reqs, tick_last >>
       ELSE /\ GpuUseMap(gpu_ticks + 1, gpu_gpus, FALSE)
            /\ UNCHANGED << gpu_skip_log, gpu_dashboard_reqs >>
    /\ UNCHANGED << gpu_legacy_ctx, gpu_interval, gpu_gpus, parse_call >>

\* _discover_gpus resumes with the reply of /Dashboard (lines 305-359), then
\* fetch() continues (lines 41-50).
GpuDashboardReply(r) ==
    /\ gpu_pc = "dashboard"
    /\ gpu_gpus' = GpuDiscovered(r)
    /\ GpuUseMap(gpu_ticks, GpuDiscovered(r), r.kind = "exc")
    /\ UNCHANGED << gpu_legacy_ctx, gpu_interval, gpu_ticks, gpu_dashboard_reqs,
                    gpu_skip_log, parse_call >>

\* fetch() resumes with the reply of the stats request (lines 46-73).
GpuStatsReply(r) ==
    /\ gpu_pc = "stats"
    /\ gpu_stats_reqs' = [gpu_stats_reqs EXCEPT ![Len(gpu_stats_reqs)].reply = r]
    /\ GpuReturn(gpu_ticks, GpuFetchResult(r), r.kind = "exc")
    /\ UNCHANGED << gpu_legacy_ctx, gpu_interval, gpu_gpus, gpu_ticks,
                    gpu_dashboard_reqs, gpu_skip_log, parse_call >>

GpuParseInputs == { GpuEmpty, JList(<<>>) } \cup GpuPayloads

\* One GPU record for every combination of values of util, temp, fan, power.
GpuUtilValues == { Missing, Qty(42, "%"), JNum(42), JStr("N/A"), Qty(42, "W") }
GpuTempValues == { Missing, Qty(65, "°C"), JStr("N/A"), JNull }
GpuFanValues == { Missing, Qty(30, "%"), JStr("Unknown") }
GpuPowerValues == { Missing, Qty(120, "W"), JStr("") }
GpuFieldPayloads ==
    { GpuData(<< GpuItem("gpu0", [GpuNoFields EXCEPT !.util = u, !.temp = t,
                                     !.fan = f, !.power = w]) >>) :
         u \in GpuUtilValues, t \in GpuTempValues, f \in GpuFanValues,
         w \in GpuPowerValues }

\* One GPU record for every combination of values of the utilization aliases.
GpuAliasPayloads ==
    { GpuData(<< GpuItem("gpu0", [GpuNoFields EXCEPT !.util = a, !.gpuutil = b,
                                     !.utilization = c, !.load = d]) >>) :
         a \in { Missing, JNull, Qty(42, "%"), JStr("N/A"), JStr(""), Qty(42, "W") },
         b \in { Missing, JNull, Qty(50, "%"), JStr("Unknown") },
         c \in { Missing, JNull, JNum(7) },
         d \in { Missing, JNull, Qty(9, "%") } }

\* _extract_balanced_json called on its own with any text.
ExtractCall(text) ==
    /\ parse_call' = [coll |-> "extract_balanced_json", data |-> text,
                      out |-> ExtractBalancedJson(text)]
    /\ UNCHANGED << gpuVars, tick_last >>

\* parse() called on its own with any payload.
GpuParseCall(data) ==
    /\ gpu_pc = "idle"
    /\ parse_call' = [coll |-> "gpu_plugin", data |-> data,
                      out |-> GpuParse(data, gpu_interval)]
    /\ UNCHANGED << gpuVars, tick_last >>

(***************************************************************************)
(* The Session Manager of the legacy context (legacy_ctx.get_session, used *)
(* by vms.py line 51 and, through legacy_ctx.http_get, by gpu_plugin.py    *)
(* and coral_tpu.py).  One session per upstream host.                      *)
(***************************************************************************)
MaxLogins == 2

\* The consumers of the session: the collectors with requires_legacy_auth.
OtherConsumers == {"gpu_plugin", "coral_tpu"}
Consumers == {"vms"} \cup OtherConsumers

LoginOutcomes == {"ok", "failed"}
NoResult == [login |-> 0, outcome |-> "none"]

VARIABLES
    sess_token,        \* the cached token: 0 is none, n the token of login n
    sess_inflight,     \* a login exchange is in flight
    sess_logins,       \* login exchanges issued so far
    sess_outcomes,     \* the outcomes of the completed login exchanges
    sess_waiting,      \* the consumers suspended in get_session
    sess_await,        \* per consumer, the login exchange it awaits (0: none)
    sess_got,          \* per consumer, the result get_session gave it last
    sess_invalidated   \* the tokens for which invalidation was signalled

sessVars ==
    << sess_token, sess_inflight, sess_logins, sess_outcomes, sess_waiting,
       sess_await, sess_got, sess_invalidated >>

SessInit ==
    /\ sess_token = 0
    /\ sess_inflight = FALSE
    /\ sess_logins = 0
    /\ sess_outcomes = <<>>
    /\ sess_waiting = {}
    /\ sess_await = [c \in Consumers |-> 0]
    /\ sess_got = [c \in Consumers |-> NoResult]
    /\ sess_invalidated = {}

\* A get_session call without a cached token that starts a login exchange
\* even though one is in flight.
SessStartsLoginAlways == TRUE

\* get_session starts a login exchange only when none is in flight;
\* otherwise the caller waits on the one in flight.
SessStartsLogin == ~sess_inflight

\* get_session can be entered: a cached token, a login to join, or room for
\* one more login exchange.
SessCanGet(c) ==
    /\ c \notin sess_waiting
    /\ sess_token # 0 \/ ~SessStartsLogin \/ sess_logins < MaxLogins

\* get_session() called by consumer c, up to its return or its suspension.
SessGetSession(c) ==
    IF sess_token # 0
    THEN /\ sess_got' = [sess_got EXCEPT ![c] =
                            [login |-> sess_token, outcome |-> "ok"]]
         /\ sess_await' = [sess_await EXCEPT ![c] = 0]
         /\ UNCHANGED << sess_token, sess_inflight, sess_logins, sess_outcomes,
                         sess_waiting, sess_invalidated >>
    ELSE /\ sess_waiting' = sess_waiting \cup {c}
         /\ IF SessStartsLogin
            THEN /\ sess_inflight' = TRUE
                 /\ sess_logins' = sess_logins + 1
                 /\ sess_await' = [sess_await EXCEPT ![c] = sess_logins + 1]
            ELSE /\ sess_await' = [sess_await EXCEPT ![c] = sess_logins]
                 /\ UNCHANGED << sess_inflight, sess_logins >>
         /\ UNCHANGED << sess_token, sess_outcomes, sess_got, sess_invalidated >>

\* The login exchange in flight completes: the token is cached on success
\* and every waiting consumer resumes with the result.
SessDeliver(outcome) ==
    /\ sess_inflight
    /\ sess_inflight' = FALSE
    /\ sess_outcomes' = Append(sess_outcomes, outcome)
    /\ sess_token' = IF outcome = "ok" THEN sess_logins ELSE 0
    /\ sess_got' = [c \in Consumers |->
                      IF c \in sess_waiting
                      THEN [login |-> sess_await[c], outcome |-> outcome]
                      ELSE sess_got[c]]
    /\ sess_waiting' = {}
    /\ UNCHANGED << sess_logins, sess_await, sess_invalidated >>

(***************************************************************************)
(* VMsCollector (vms.py).                                                  *)
(***************************************************************************)
\* A keyword argument the call leaves to the default of EntityUpdate.
NotPassed == [k |-> "notpassed"]

VmsData(vms) == [k |-> "dict", empty |-> (vms.k = "missing"), vms |-> vms]
VmsObject(domains) == [k |-> "dict", empty |-> FALSE, domains |-> domains]
VmDomain(name, state, uuid) ==
    [k |-> "dict", empty |-> FALSE, name |-> name, state |-> state, uuid |-> uuid]
VmsEmpty == VmsData(Missing)

\* str.lower()
Lower(s) ==
    CASE s = "RUNNING" -> "running"
      [] s = "Shut Off" -> "shut off"
      [] OTHER -> s

\* 'running' in state
ContainsRunning(s) == s = "running"

\* `domains` after lines 83-91, or the reason parse() has already ended:
\* "none" (returns the empty list) or "raise".
VmsDomains(data) ==
    IF data.k # "dict" THEN [end |-> "raise"]
    ELSE LET vms_data == GetOr(data.vms, [k |-> "dict", empty |-> TRUE])
         IN IF ~Truthy(vms_data) THEN [end |-> "none"]
            ELSE IF vms_data.k # "dict" THEN [end |-> "raise"]
            ELSE LET d == GetOr(vms_data.domains, JList(<<>>))
                     domains == IF d.k = "list" THEN d.l
                                ELSE IF Truthy(d) THEN << d >> ELSE <<>>
                 IN IF domains = <<>> THEN [end |-> "none"]
                    ELSE [end |-> "specs", domains |-> domains]

\* A row of /VMMachines.php: the name, the vCPU text and the memory text.
VmRow(name, vcpu_text, mem_text) ==
    [name |-> name, vcpu_text |-> vcpu_text, mem_text |-> mem_text]

\* int(vcpu_text), 0 on ValueError (lines 63-67).
VmVcpus(t) == IF t.k = "qty" /\ t.unit = "" THEN t.n ELSE 0

\* int(re.sub(r'[^\d]', '', mem_text)) if mem_text else 0 (line 70): a text
\* without a digit raises.
VmMemRaises(t) == t.k = "str" /\ t.s # ""
VmMemMb(t) == IF t.k = "qty" THEN t.n ELSE 0

\* vm_specs after the loop over the rows (lines 58-72): the rows before the
\* first one that raises.
RECURSIVE VmSpecsOfRows(_)
VmSpecsOfRows(rows) ==
    IF rows = <<>> THEN <<>>
    ELSE LET row == Head(rows)
         IN IF row.name = "" THEN VmSpecsOfRows(Tail(rows))
            ELSE IF VmMemRaises(row.mem_text) THEN <<>>
            ELSE << [name |-> row.name, vcpus |-> VmVcpus(row.vcpu_text),
                     memory_mb |-> VmMemMb(row.mem_text)] >>
                 \o VmSpecsOfRows(Tail(rows))

\* vm_specs.get(name, {}): the last row of that name wins.
RECURSIVE VmSpecsGet(_, _)
VmSpecsGet(specs, name) ==
    IF specs = <<>> THEN [vcpus |-> 0, memory_mb |-> 0]
    ELSE LET last == specs[Len(specs)]
         IN IF last.name = name THEN [vcpus |-> last.vcpus,
                                      memory_mb |-> last.memory_mb]
            ELSE VmSpecsGet(SubSeq(specs, 1, Len(specs) - 1), name)

\* vm_specs for the reply of /VMMachines.php (lines 54-76); the status of
\* the reply is not read.
VmSpecs(r) == IF r.kind = "exc" THEN <<>> ELSE VmSpecsOfRows(r.body)

\* The body of `for vm in domains` (lines 102-171) for one domain.
VmUpdates(vm, specs) ==
    IF vm.k # "dict" THEN Raised
    ELSE LET name == GetOr(vm.name, JStr(""))
         IN IF ~Truthy(name) THEN Returned(<<>>)
            ELSE IF GetOr(vm.state, JStr("")).k # "str" THEN Raised
            ELSE
            LET state == Lower(GetOr(vm.state, JStr("")).s)
                power_state == IF ContainsRunning(state) THEN "ON" ELSE "OFF"
                sp == IF name.k = "str" THEN VmSpecsGet(specs, name.s)
                      ELSE VmSpecsGet(<<>>, "")
                attributes == [uuid |-> GetOr(vm.uuid, JStr("")),
                               state |-> state,
                               vcpus |-> sp.vcpus, memory_mb |-> sp.memory_mb]
            IN Returned(
                 << EntityUpdate("binary_sensor", <<"VM", name, "State">>,
                                 JStr(power_state), attributes, NotPassed,
                                 NotPassed, <<"vm", name, "state">>) >>
                 \o (IF sp.vcpus # 0
                     THEN << EntityUpdate("sensor", <<"VM", name, "vCPUs">>,
                                          JNum(sp.vcpus), NoAttributes, NotPassed,
                                          NotPassed, <<"vm", name, "vcpus">>) >>
                     ELSE <<>>)
                 \o (IF sp.memory_mb # 0
                     THEN << EntityUpdate("sensor", <<"VM", name, "Memory">>,
                                          JNum(sp.memory_mb), NoAttributes,
                                          NotPassed, NotPassed,
                                          <<"vm", name, "memory">>) >>
                     ELSE <<>>))

RECURSIVE VmsLoop(_, _)
VmsLoop(domains, specs) ==
    IF domains = <<>> THEN Returned(<<>>)
    ELSE Then(VmUpdates(Head(domains), specs), VmsLoop(Tail(domains), specs))

\* VMsCollector.parse(data), given what _fetch_vm_specs returned.
VmsParse(data, specs) ==
    LET d == VmsDomains(data)
    IN CASE d.end = "raise" -> Raised
         [] d.end = "none" -> Returned(<<>>)
         [] OTHER -> VmsLoop(d.domains, specs)

VmsPayloads ==
    { VmsData(VmsObject(JList(<< VmDomain(JStr("win11"), JStr("RUNNING"),
                                          JStr("u-1")) >>))),
      VmsData(VmsObject(JList(<< VmDomain(JStr("win11"), JStr("Shut Off"), Missing),
                                 VmDomain(Missing, JStr("running"), Missing) >>))),
      VmsData(VmsObject(JList(<< VmDomain(JStr("win11"), JNull, Missing) >>))) }

\* What gql.query gives fetch(): a result, or an exception (lines 38-42).
VmsGqlReplies == { GqlExc } \cup { GqlOk(p) : p \in VmsPayloads \cup {VmsEmpty} }

VmsFetchResult(reply) == IF reply.kind = "exc" THEN VmsEmpty ELSE reply.v

VmsHttpReplies ==
    { HttpExc, Http(401, <<>>), Http(200, <<>>),
      Http(200, << VmRow("win11", Qty(4, ""), Qty(8192, " MB")) >>),
      Http(200, << VmRow("win11", JStr("auto"), JStr("N/A")) >>) }

VARIABLES
    vms_legacy_ctx,    \* self.legacy_ctx is set
    vms_pc,            \* "idle", "session" (in get_session) or "http"
    vms_ticks,         \* ticks started
    vms_data,          \* the payload parse() is working on
    vms_fetch_raised,  \* the query of this tick raised
    vms_http_reqs,     \* /VMMachines.php requests of the tick: [tick, cookie, reply]
    vms_skip_log       \* severities logged for the missing legacy context

vmsVars ==
    << vms_legacy_ctx, vms_pc, vms_ticks, vms_data, vms_fetch_raised,
       vms_http_reqs, vms_skip_log >>

VmsInit ==
    /\ vms_legacy_ctx \in BOOLEAN
    /\ vms_pc = "idle"
    /\ vms_ticks = 0
    /\ vms_data = VmsEmpty
    /\ vms_fetch_raised = FALSE
    /\ vms_http_reqs = <<>>
    /\ vms_skip_log = <<>>

\* parse() returns, given what _fetch_vm_specs returned.
VmsReturn(tick, data, exc, specs) ==
    /\ vms_pc' = "idle"
    /\ tick_last' = Tick("vms", tick, data, exc, VmsParse(data, specs))

\* Line 54: the request for /VMMachines.php with the cookie of the session.
VmsRequest(cookie) ==
    /\ vms_pc' = "http"
    /\ vms_http_reqs' = Append(vms_http_reqs,
           [tick |-> vms_ticks, cookie |-> cookie, reply |-> Pending])
    /\ UNCHANGED << tick_last, vms_skip_log >>

\* The severity of the message for legacy_ctx being None (line 74).
VmsSkipSeverity == "warning"

\* A tick: fetch() (lines 36-42), then parse() up to its first await
\* (lines 78-100 and 49-51).
VmsTick(reply) ==
    /\ vms_pc = "idle"
    /\ vms_ticks < MaxTicks
    /\ vms_ticks' = vms_ticks + 1
    /\ vms_data' = VmsFetchResult(reply)
    /\ vms_fetch_raised' = (reply.kind = "exc")
    /\ UNCHANGED << vms_legacy_ctx, parse_call >>
    /\ IF VmsDomains(VmsFetchResult(reply)).end # "specs"
       THEN /\ VmsReturn(vms_ticks + 1, VmsFetchResult(reply), reply.kind = "exc", <<>>)
            /\ vms_http_reqs' = <<>>
            /\ UNCHANGED << vms_skip_log, sessVars >>
       ELSE IF ~vms_legacy_ctx
       THEN /\ vms_skip_log' = Append(vms_skip_log, VmsSkipSeverity)
            /\ VmsReturn(vms_ticks + 1, VmsFetchResult(reply), reply.kind = "exc", <<>>)
            /\ vms_http_reqs' = <<>>
            /\ UNCHANGED sessVars
       ELSE /\ SessCanGet("vms")
            /\ SessGetSession("vms")
            /\ IF sess_token # 0
               THEN /\ vms_pc' = "http"
                    /\ vms_http_reqs' = << [tick |-> vms_ticks + 1,
                                            cookie |-> sess_token,
                                            reply |-> Pending] >>
               ELSE /\ vms_pc' = "session"
                    /\ vms_http_reqs' = <<>>
            /\ UNCHANGED << tick_last, vms_skip_log >>

\* The login exchange completes.  A VMsCollector suspended in get_session
\* resumes: with the cookie it issues its request (line 54); with the login
\* error it logs and goes on without specs (lines 73-76).
SessLoginReply(outcome) ==
    /\ SessDeliver(outcome)
    /\ IF "vms" \in sess_waiting
       THEN IF outcome = "ok"
            THEN VmsRequest(sess_logins)
            ELSE /\ VmsReturn(vms_ticks, vms_data, vms_fetch_raised, <<>>)
                 /\ UNCHANGED << vms_http_reqs, vms_skip_log >>
       ELSE UNCHANGED << vms_pc, vms_http_reqs, vms_skip_log, tick_last >>
    /\ UNCHANGED << vms_legacy_ctx, vms_ticks, vms_data, vms_fetch_raised,
                    parse_call >>

\* _fetch_vm_specs resumes with the reply (lines 54-76) and parse() goes on
\* to its end (lines 102-173).
VmsHttpReply(r) ==
    /\ vms_pc = "http"
    /\ vms_http_reqs' = [vms_http_reqs EXCEPT ![Len(vms_http_reqs)].reply = r]
    /\ VmsReturn(vms_ticks, vms_data, vms_fetch_raised, VmSpecs(r))
    /\ UNCHANGED << vms_legacy_ctx, vms_ticks, vms_data, vms_fetch_raised,
                    vms_skip_log, sessVars, parse_call >>

\* Another legacy-endpoint consumer asks for the session.
SessRequest(c) ==
    /\ SessCanGet(c)
    /\ SessGetSession(c)
    /\ UNCHANGED << vmsVars, tick_last, parse_call >>

\* A consumer signals that the upstream rejected the cached token: the
\* next get_session re-acquires.
SessInvalidate(c) ==
    /\ sess_token # 0
    /\ sess_invalidated' = sess_invalidated \cup {sess_token}
    /\ sess_token' = 0
    /\ UNCHANGED << sess_inflight, sess_logins, sess_outcomes, sess_waiting,
                    sess_await, sess_got, vmsVars, tick_last, parse_call >>

(***************************************************************************)
(* ArrayCollector (array.py).  Kilobyte counts are kept in units of 2^20   *)
(* KB and parity sizes in units of 9765625 sectors (0.01 TB).              *)
(***************************************************************************)
KbUnitsPerTb == 1024

ArrayData(array) == [k |-> "dict", empty |-> (array.k = "missing"), array |-> array]
ArrayObject(state, capacity, parities) ==
    [k |-> "dict", empty |-> FALSE, state |-> state, capacity |-> capacity,
     parities |-> parities]
Capacity(kilobytes) ==
    [k |-> "dict", empty |-> (kilobytes.k = "missing"), kilobytes |-> kilobytes]
Kilobytes(total, used, free) ==
    [k |-> "dict", total |-> total, used |-> used, free |-> free,
     empty |-> (total.k = "missing" /\ used.k = "missing" /\ free.k = "missing")]
Parity(name, status, temp, size) ==
    [k |-> "dict", empty |-> FALSE, name |-> name, status |-> status,
     temp |-> temp, size |-> size]
ArrayEmpty == ArrayData(Missing)

\* array_data.get('capacity') without its default.
ArrayCapacityNoDefault(array_data) ==
    IF array_data.capacity.k = "missing" THEN JNull ELSE array_data.capacity

\* array_data.get('capacity', {}) (line 102).
ArrayCapacity(array_data) == GetOr(array_data.capacity, Capacity(Missing))

\* float(v or 0) raises (lines 107-109).
KbRaises(v) == Truthy(v) /\ ~FloatOk(v)
\* float(v or 0)
KbFloat(v) == IF Truthy(v) THEN FloatOf(v) ELSE 0

\* The Array Usage update (lines 104-137), for a truthy `kilobytes`.
ArrayUsage(kilobytes) ==
    IF kilobytes.k # "dict" THEN Raised
    ELSE IF KbRaises(kilobytes.total) \/ KbRaises(kilobytes.used)
            \/ KbRaises(kilobytes.free) THEN Raised
    ELSE LET total_kb == KbFloat(kilobytes.total)
             used_kb == KbFloat(kilobytes.used)
             free_kb == KbFloat(kilobytes.free)
             Tb(kb) == IF kb # 0 THEN RoundHalfEven(kb * 100, KbUnitsPerTb) ELSE 0
             usage_pct == IF total_kb # 0
                          THEN RoundHalfEven(used_kb * 10000, total_kb) ELSE 0
         IN Returned(<< EntityUpdate("sensor", <<"Array Usage">>, JNum(usage_pct),
                           [total_tb |-> Tb(total_kb), used_tb |-> Tb(used_kb),
                            free_tb |-> Tb(free_kb)],
                           NotPassed, NotPassed, <<"array_usage">>) >>)

\* `v and v > 0` raises: a truthy value that does not compare with 0.
GtZeroRaises(v) == Truthy(v) /\ v.k \notin {"num", "bool"}
\* `v and v > 0`
GtZero(v) == Truthy(v) /\ FloatOf(v) > 0

\* The body of `for parity in parities` (lines 142-196) for one element.
ParityUpdates(parity) ==
    IF parity.k # "dict" THEN Returned(<<>>)
    ELSE LET name == GetOr(parity.name, JStr("parity"))
             status == GetOr(parity.status, JStr("UNKNOWN"))
             temp == GetOr(parity.temp, JNum(0))
             size == GetOr(parity.size, JNum(0))
         IN IF GtZeroRaises(temp) \/ GtZeroRaises(size) THEN Raised
            ELSE Returned(
              << EntityUpdate("sensor", <<"Parity", name, "Status">>, status,
                    NoAttributes, NotPassed, NotPassed,
                    <<"parity", name, "status">>) >>
              \o (IF GtZero(temp)
                  THEN << EntityUpdate("sensor", <<"Parity", name, "Temperature">>,
                             temp, NoAttributes, NotPassed, NotPassed,
                             <<"parity", name, "temperature">>) >>
                  ELSE <<>>)
              \o (IF GtZero(size)
                  THEN << EntityUpdate("sensor", <<"Parity", name, "Size">>,
                             JNum(FloatOf(size)), NoAttributes, TRUE, NotPassed,
                             <<"parity", name, "size">>) >>
                  ELSE <<>>))

RECURSIVE ParityLoop(_)
ParityLoop(parities) ==
    IF parities = <<>> THEN Returned(<<>>)
    ELSE Then(ParityUpdates(Head(parities)), ParityLoop(Tail(parities)))

\* ArrayCollector.parse(data) (lines 77-198).
ArrayParse(data) ==
    IF data.k # "dict" THEN Raised
    ELSE LET array_data == GetOr(data.array, ArrayObject(Missing, Missing, Missing))
         IN IF ~Truthy(data.array) THEN Returned(<<>>)
            ELSE IF array_data.k # "dict" THEN Raised
            ELSE
            LET stateU == Returned(
                    << EntityUpdate("sensor", <<"Array State">>,
                          GetOr(array_data.state, JStr("UNKNOWN")), NoAttributes,
                          NotPassed, NotPassed, <<"array_state">>) >>)
                capacity == ArrayCapacity(array_data)
                kilobytes == IF capacity.k = "dict"
                             THEN GetOr(capacity.kilobytes,
                                        Kilobytes(Missing, Missing, Missing))
                             ELSE JNull
                usageU == IF capacity.k # "dict" THEN Raised
                          ELSE IF ~Truthy(kilobytes) THEN Returned(<<>>)
                          ELSE ArrayUsage(kilobytes)
                parities == GetOr(array_data.parities, JList(<<>>))
                paritiesU == IF parities.k # "list" THEN Raised
                             ELSE ParityLoop(parities.l)
            IN Then(Then(stateU, usageU), paritiesU)

\* ArrayCollector.fetch (lines 69-75): the result of the query, {} on error.
ArrayFetchResult(reply) == IF reply.kind = "exc" THEN ArrayEmpty ELSE reply.v

ArrayStates == { Missing, JStr("STARTED") }
KbValues == { Missing, JNum(8192), JStr("42"), JStr("N/A") }
ArrayCapacities ==
    { Missing, JNull, Capacity(Missing) }
      \cup { Capacity(Kilobytes(t, u, Missing)) :
                t \in KbValues, u \in { JNum(2048), JNull } }
ParityTemps == { Missing, JNum(0), JNum(45), JStr("45") }
ParitySizes == { Missing, JNum(800), JStr("800") }
ArrayParities ==
    { Missing, JNull, JList(<<>>), JList(<< JStr("x") >>) }
      \cup { JList(<< Parity(JStr("parity"), JStr("DISK_OK"), t, z) >>) :
                t \in ParityTemps, z \in ParitySizes }
      \cup { JList(<< Parity(JStr("parity"), JStr("DISK_OK"), t, JNum(800)),
                      Parity(JStr("parity2"), Missing, JNum(40), Missing) >>) :
                t \in { JNum(45), JStr("45") } }

\* The payloads parse() is applied to.
ArrayPayloads ==
    { ArrayEmpty, ArrayData(JNull) }
      \cup { ArrayData(ArrayObject(st, c, Missing)) :
                st \in ArrayStates, c \in ArrayCapacities }
      \cup { ArrayData(ArrayObject(JStr("STARTED"), c, ps)) :
                c \in { Missing, Capacity(Kilobytes(JNum(8192), JNum(2048), Missing)) },
                ps \in ArrayParities }

\* parse() called with a payload.
ArrayParseCall(data) ==
    /\ parse_call' = [coll |-> "array", data |-> data, out |-> ArrayParse(data)]
    /\ UNCHANGED tick_last

\* A tick: fetch() (lines 69-75), then parse() of what it returned.
ArrayTick(reply) ==
    /\ tick_last' = Tick("array", 1, ArrayFetchResult(reply), reply.kind = "exc",
                         ArrayParse(ArrayFetchResult(reply)))
    /\ UNCHANGED parse_call

(***************************************************************************)
(* DockerCollector (docker.py).                                            *)
(***************************************************************************)
DockerData(docker) ==
    [k |-> "dict", empty |-> (docker.k = "missing"), docker |-> docker]
DockerObject(containers) ==
    [k |-> "dict", empty |-> (containers.k = "missing"), containers |-> containers]
Container(id, names, state, ports) ==
    [k |-> "dict", empty |-> FALSE, id |-> id, names |-> names, state |-> state,
     ports |-> ports]
Port(privatePort, publicPort, type) ==
    [k |-> "dict", empty |-> FALSE, privatePort |-> privatePort,
     publicPort |-> publicPort, type |-> type]
DockerEmpty == DockerData(Missing)

\* s.lstrip('/')
LStripSlash(s) ==
    CASE s = "/plex" -> "plex"
      [] s = "/db" -> "db"
      [] OTHER -> s

\* names[0].lstrip('/') or str(names).lstrip('/') (line 65), for truthy names.
ContainerName(names) ==
    IF names.k = "list"
    THEN IF names.l[1].k = "str" THEN JStr(LStripSlash(names.l[1].s))
         ELSE [k |-> "raise"]
    ELSE IF names.k = "str" THEN JStr(LStripSlash(names.s))
    ELSE names

\* The port mappings of a container (lines 78-85).
RECURSIVE PortMappings(_)
PortMappings(ports) ==
    IF ports = <<>> THEN <<>>
    ELSE LET port == Head(ports)
         IN (IF port.k = "dict"
                /\ Truthy(GetOr(port.privatePort, JStr("")))
                /\ Truthy(GetOr(port.publicPort, JStr("")))
             THEN << [public |-> port.publicPort, private |-> port.privatePort,
                      type |-> GetOr(port.type, JStr("tcp"))] >>
             ELSE <<>>)
            \o PortMappings(Tail(ports))

\* container.get('ports') without its default.
ContainerPortsNoDefault(container) ==
    IF container.ports.k = "missing" THEN JNull ELSE container.ports

\* container.get('ports', []) (line 76).
ContainerPorts(container) == GetOr(container.ports, JList(<<>>))

\* The body of `for container in containers` (lines 58-111) for one element.
ContainerUpdates(container) ==
    IF container.k # "dict" THEN Raised
    ELSE LET names == GetOr(container.names, JList(<<>>))
         IN IF ~Truthy(names) THEN Returned(<<>>)
            ELSE
            LET name == ContainerName(names)
                st == GetOr(container.state, JStr(""))
                ports == ContainerPorts(container)
                id == GetOr(container.id, JStr(""))
            IN IF name.k = "raise" \/ st.k # "str" \/ ports.k # "list"
                  \/ id.k \notin {"str", "list"}
               THEN Raised
               ELSE Returned(
                 << EntityUpdate("binary_sensor", <<"Docker", name, "State">>,
                       JStr(IF Lower(st.s) = "running" THEN "ON" ELSE "OFF"),
                       [container_id |-> id, state |-> Lower(st.s),
                        port_mappings |-> PortMappings(ports.l)],
                       NotPassed, NotPassed, <<"docker", name, "state">>) >>)

RECURSIVE ContainerLoop(_)
ContainerLoop(containers) ==
    IF containers = <<>> THEN Returned(<<>>)
    ELSE Then(ContainerUpdates(Head(containers)), ContainerLoop(Tail(containers)))

\* DockerCollector.parse(data) (lines 46-113).
DockerParse(data) ==
    IF data.k # "dict" THEN Raised
    ELSE LET docker == GetOr(data.docker, DockerObject(Missing))
         IN IF docker.k # "dict" THEN Raised
            ELSE LET containers == GetOr(docker.containers, JList(<<>>))
                 IN IF ~Truthy(containers) THEN Returned(<<>>)
                    ELSE IF containers.k # "list" THEN Raised
                    ELSE ContainerLoop(containers.l)

\* DockerCollector.fetch (lines 38-44): the result of the query, {} on error.
DockerFetchResult(reply) == IF reply.kind = "exc" THEN DockerEmpty ELSE reply.v

ContainerNames == { Missing, JList(<<>>), JList(<< JStr("/plex") >>), JStr("/db") }
ContainerStates == { Missing, JNull, JStr("running"), JStr("RUNNING"), JStr("exited") }
ContainerPortLists ==
    { Missing, JNull, JList(<<>>),
      JList(<< Port(JNum(32400), JNum(32400), JStr("tcp")),
               Port(JNum(1900), Missing, Missing) >>) }
Containers ==
    { Container(JStr("abc"), n, st, ps) :
         n \in ContainerNames, st \in ContainerStates, ps \in ContainerPortLists }

\* The payloads parse() is applied to.
DockerPayloads ==
    { DockerEmpty, DockerData(JNull), DockerData(DockerObject(Missing)),
      DockerData(DockerObject(JNull)), DockerData(DockerObject(JList(<<>>))) }
      \cup { DockerData(DockerObject(JList(<< c >>))) : c \in Containers }
      \cup { DockerData(DockerObject(JList(<<
                Container(Missing, JList(<< JStr("/plex") >>), JStr("running"),
                          Missing), c >>))) :
                c \in { Container(JNull, JList(<< JStr("/db") >>), JStr("exited"),
                                  Missing),
                        Container(JStr("abc"), JList(<< JStr("/db") >>), Missing,
                                  Missing),
                        JStr("x") } }

\* parse() called with a payload.
DockerParseCall(data) ==
    /\ parse_call' = [coll |-> "docker", data |-> data, out |-> DockerParse(data)]
    /\ UNCHANGED tick_last

\* A tick: fetch() (lines 38-44), then parse() of what it returned.
DockerTick(reply) ==
    /\ tick_last' = Tick("docker", 1, DockerFetchResult(reply), reply.kind = "exc",
                         DockerParse(DockerFetchResult(reply)))
    /\ UNCHANGED parse_call

(***************************************************************************)
(* The collectors are independent tasks: one specification per collector.  *)
(***************************************************************************)
vars == << coralVars, memVars, gpuVars, sessVars, vmsVars, tick_last, parse_call >>

Init ==
    /\ CoralInit
    /\ MemInit
    /\ GpuInit
    /\ SessInit
    /\ VmsInit
    /\ tick_last = NoTick
    /\ parse_call = NoParseCall

coralOthers == << memVars, gpuVars, sessVars, vmsVars >>
memOthers == << coralVars, gpuVars, sessVars, vmsVars >>
gpuOthers == << coralVars, memVars, sessVars, vmsVars >>
sessionOthers == << coralVars, memVars, gpuVars >>

CoralNext ==
    \/ \E i \in Invocations :
          CoralTick(i) /\ UNCHANGED << parse_call, coralOthers >>
    \/ \E i \in Invocations, r \in ProbeReplies :
          CoralProbeReply(i, r) /\ UNCHANGED << parse_call, coralOthers >>
    \/ \E i \in Invocations, r \in CoralDataReplies :
          CoralDataReply(i, r) /\ UNCHANGED << parse_call, coralOthers >>
    \/ \E data \in CoralParseInputs :
          CoralParseCall(data) /\ UNCHANGED coralOthers

\* fetch() of one instance called a second time while the first call is
\* suspended in a request: the instance itself does not prevent it.
OverlapProbeReplies == { HttpExc, Http(404, BadJson), Http(200, EmptyDict) }
OverlapDataReplies == { HttpExc, Http(200, CoralDict(JList(<<>>), JList(<<>>), FALSE)) }

CoralOverlapNext ==
    \/ \E i \in Invocations :
          /\ coral_ticks < Cardinality(Invocations)
          /\ CoralFetchStart(i)
          /\ UNCHANGED << parse_call, coralOthers >>
    \/ \E i \in Invocations, r \in OverlapProbeReplies :
          CoralProbeReply(i, r) /\ UNCHANGED << parse_call, coralOthers >>
    \/ \E i \in Invocations, r \in OverlapDataReplies :
          CoralDataReply(i, r) /\ UNCHANGED << parse_call, coralOthers >>

\* The construction of the collectors a specification leaves idle.
CoralRest == coral_legacy_ctx /\ coral_interval = 45
MemRest == gql_up /\ gql_schema = 1 /\ mem_interval = 45

GpuRest == gpu_legacy_ctx /\ gpu_interval = 45
VmsRest == vms_legacy_ctx

InitCoral == Init /\ MemRest /\ GpuRest /\ VmsRest
SpecCoral == InitCoral /\ [][CoralNext]_vars
SpecCoralOverlap == InitCoral /\ [][CoralOverlapNext]_vars

MemNext ==
    \/ \E ps \in PsutilResults : MemFetchStart(ps) /\ UNCHANGED memOthers
    \/ /\ mem_pc = "query"
       /\ \E reply \in MemReplies(Head(mem_order), gql_up, gql_schema),
             ps \in PsutilResults :
             MemQueryReply(reply, ps) /\ UNCHANGED memOthers
    \/ GqlAvailabilityChanges /\ UNCHANGED memOthers
    \/ \E data \in MemParseInputs : MemParseCall(data) /\ UNCHANGED memOthers

InitMemory == Init /\ CoralRest /\ GpuRest /\ VmsRest
SpecMemory == InitMemory /\ [][MemNext]_vars

GpuNext ==
    \/ GpuFetchStart /\ UNCHANGED gpuOthers
    \/ \E r \in DashboardReplies : GpuDashboardReply(r) /\ UNCHANGED gpuOthers
    \/ \E r \in GpuStatsReplies : GpuStatsReply(r) /\ UNCHANGED gpuOthers
    \/ \E data \in GpuParseInputs : GpuParseCall(data) /\ UNCHANGED gpuOthers

InitGpu == Init /\ CoralRest /\ MemRest /\ VmsRest
SpecGpu == InitGpu /\ [][GpuNext]_vars

SessionNext ==
    \/ \E reply \in VmsGqlReplies : VmsTick(reply) /\ UNCHANGED sessionOthers
    \/ \E outcome \in LoginOutcomes :
           SessLoginReply(outcome) /\ UNCHANGED sessionOthers
    \/ \E r \in VmsHttpReplies : VmsHttpReply(r) /\ UNCHANGED sessionOthers
    \/ \E c \in OtherConsumers : SessRequest(c) /\ UNCHANGED sessionOthers
    \/ \E c \in OtherConsumers : SessInvalidate(c) /\ UNCHANGED sessionOthers

\* The collectors without state: their ticks, and parse() on its own.
QueryReplies ==
    { [coll |-> "array", reply |-> GqlExc], [coll |-> "docker", reply |-> GqlExc] }
      \cup { [coll |-> "array", reply |-> GqlOk(p)] :
                p \in { ArrayEmpty,
                        ArrayData(ArrayObject(JStr("STARTED"), Missing, Missing)) } }
      \cup { [coll |-> "docker", reply |-> GqlOk(p)] :
                p \in { DockerEmpty,
                        DockerData(DockerObject(JList(<<
                            Container(JStr("abc"), JList(<< JStr("/plex") >>),
                                      JStr("running"), Missing) >>))) } }

statelessOthers == << coralVars, memVars, gpuVars, sessVars, vmsVars >>

StatelessNext ==
    \/ \E data \in ArrayPayloads : ArrayParseCall(data) /\ UNCHANGED statelessOthers
    \/ \E data \in DockerPayloads :
           DockerParseCall(data) /\ UNCHANGED statelessOthers
    \/ \E q \in QueryReplies :
           q.coll = "array" /\ ArrayTick(q.reply) /\ UNCHANGED statelessOthers
    \/ \E q \in QueryReplies :
           q.coll = "docker" /\ DockerTick(q.reply) /\ UNCHANGED statelessOthers
    \/ \E data \in CoralParseInputs : CoralParseCall(data) /\ UNCHANGED coralOthers
    \/ \E data \in GpuFieldPayloads : GpuParseCall(data) /\ UNCHANGED gpuOthers

InitStateless == Init /\ CoralRest /\ MemRest /\ GpuRest /\ VmsRest
SpecStateless == InitStateless /\ [][StatelessNext]_vars

InitSession == Init /\ CoralRest /\ MemRest /\ GpuRest
SpecSession == InitSession /\ [][SessionNext]_vars

\* _extract_balanced_json keeps no state: one call, on any text.
MaxBody == 5
Chars == {"{", "}", "\"", "\\", "x"}
Bodies == UNION { [1 .. n -> Chars] : n \in 0 .. MaxBody }
Prefixes ==
    { <<>>, << Marker >>, << "{", Marker >>, << Marker, "x" >>,
      << "\"", Marker >>, << Marker, "{", Marker >> }
Texts == { p \o b : p \in Prefixes, b \in Bodies }

ExtractNext ==
    \E text \in Texts :
        parse_call = NoParseCall /\ ExtractCall(text) /\ UNCHANGED gpuOthers

SpecExtract == InitStateless /\ [][ExtractNext]_vars

\* parse() keeps no state: one call of one collector's parse(), whatever the
\* intervals the collectors were constructed with.
NoCallYet == parse_call = NoParseCall

CallsNext ==
    \/ \E data \in GpuAliasPayloads :
           NoCallYet /\ GpuParseCall(data) /\ UNCHANGED gpuOthers
    \/ \E data \in CoralListPayloads :
           NoCallYet /\ CoralParseCall(data) /\ UNCHANGED coralOthers
    \/ \E data \in MemGridPayloads :
           NoCallYet /\ MemParseCall(data) /\ UNCHANGED memOthers

InitCalls == Init /\ coral_legacy_ctx /\ gql_up /\ gql_schema = 1 /\ gpu_legacy_ctx /\ VmsRest
SpecCalls == InitCalls /\ [][CallsNext]_vars

(***************************************************************************)
(* Endpoint resolution of CoralTPUCollector.                               *)
(***************************************************************************)
\* A reply with status 200 whose body parses to a JSON object.
IsOkObject(r) == r.kind = "http" /\ r.status = 200 /\ r.body.k = "dict"
Answered(j) == coral_probes[j].reply # Pending

\* C1: when the k-th candidate is the first accepted one, the probes issued by
\* the instance, over all its ticks, are exactly candidates 1..k in order, all
\* in the discovering tick, and candidate k is the cached endpoint.
C1_ResolveProbesExactlyK ==
    \A k \in 1 .. Len(coral_probes) :
        ( /\ IsOkObject(coral_probes[k].reply)
          /\ \A j \in 1 .. k - 1 : ~IsOkObject(coral_probes[j].reply) )
        => /\ Len(coral_probes) = k
           /\ coral_endpoint = k
           /\ \A j \in 1 .. k :
                 /\ coral_probes[j].cand = j
                 /\ coral_probes[j].tick = coral_probes[1].tick

\* /a -> 404, /b -> 200 with an object; two later fetches ran; /c never probed.
C1_Witness ==
    /\ Len(coral_probes) = 2
    /\ coral_probes[1].reply = Http(404, BadJson)
    /\ IsOkObject(coral_probes[2].reply)
    /\ coral_endpoint = 2
    /\ tick_last.tick = 3
    /\ Len(coral_data_reqs) = 3

\* Every candidate failed on the first discovery.
CoralExhausted == coral_endpoint_checked /\ coral_endpoint = 0

\* C2: once every candidate has failed, the instance has issued exactly one
\* probe per candidate, all in one tick, never issues a data request, and every
\* fetch() that has completed returned the empty payload.
C2_ExhaustionIsPermanent ==
    CoralExhausted =>
        /\ Len(coral_probes) = NumEndpoints
        /\ \A j \in 1 .. Len(coral_probes) :
              /\ coral_probes[j].cand = j
              /\ coral_probes[j].tick = coral_probes[1].tick
              /\ Answered(j) /\ ~IsOkObject(coral_probes[j].reply)
        /\ coral_data_reqs = <<>>
        /\ \A i \in Invocations : coral_pc[i] = "idle"
        /\ tick_last.tick > 0 /\ tick_last.raw = EmptyDict

\* Exhausted on tick 1, and two more ticks have completed.
C2_Witness ==
    /\ CoralExhausted
    /\ coral_probes[1].tick = 1
    /\ tick_last.tick = 3

\* C10: a probe reply resolves the binding to its candidate exactly when it is
\* a 200 with a JSON object; any other reply leaves the binding off that
\* candidate and, unless it was the last candidate, the next candidate in
\* order is probed in the same tick.
C10_AcceptedIffOkObject ==
    \A j \in 1 .. Len(coral_probes) :
        Answered(j) =>
            IF IsOkObject(coral_probes[j].reply)
            THEN coral_endpoint = coral_probes[j].cand
            ELSE /\ coral_endpoint # coral_probes[j].cand
                 /\ coral_probes[j].cand < NumEndpoints =>
                       /\ Len(coral_probes) > j
                       /\ coral_probes[j + 1].cand = coral_probes[j].cand + 1
                       /\ coral_probes[j + 1].tick = coral_probes[j].tick

\* A 200 with unparseable body, then a 200 with a JSON list, then an object.
C10_Witness ==
    /\ Len(coral_probes) = 3
    /\ coral_probes[1].reply = Http(200, BadJson)
    /\ coral_probes[2].reply = Http(200, JList(<<>>))
    /\ IsOkObject(coral_probes[3].reply)
    /\ coral_endpoint = 3

(***************************************************************************)
(* Failed ticks.                                                           *)
(***************************************************************************)
\* C4: a tick whose upstream call raised inside fetch() produces no
\* EntityUpdate: parse() of what fetch() returned is the empty sequence.
C4_FailedTickYieldsNothing ==
    (tick_last.tick > 0 /\ tick_last.fetch_raised)
        => tick_last.out = Returned(<<>>)

\* C5: a tick of MemoryCollector during which the structured query API
\* answers its memory query takes its data from the API, whatever failed in
\* earlier ticks.
C5_MemorySelfHeals ==
    (tick_last.coll = "memory" /\ tick_last.api_up)
        => tick_last.raw.source = JStr("graphql")

(***************************************************************************)
(* The session.                                                            *)
(***************************************************************************)
\* C3: at most one login exchange is in flight; every consumer suspended in
\* get_session awaits that one exchange, so consumers that ask together
\* while no token is cached cause exactly one login; and every consumer that
\* awaited an exchange received the outcome of that exchange.
C3_SingleFlight ==
    /\ sess_logins = Len(sess_outcomes) + (IF sess_inflight THEN 1 ELSE 0)
    /\ \A c \in sess_waiting : sess_inflight /\ sess_await[c] = sess_logins
    /\ \A c \in Consumers :
          (sess_await[c] > 0 /\ c \notin sess_waiting) =>
              /\ sess_got[c].login = sess_await[c]
              /\ sess_got[c].outcome = sess_outcomes[sess_await[c]]

\* VMsCollector._fetch_vm_specs and two other consumers asked for the
\* session while the first login was in flight; one login was issued, all
\* three received its result and the VMs request went out with its cookie.
C3_Witness ==
    /\ sess_logins = 1
    /\ sess_outcomes = << "ok" >>
    /\ \A c \in Consumers :
          sess_await[c] = 1 /\ sess_got[c] = [login |-> 1, outcome |-> "ok"]
    /\ vms_pc = "http"
    /\ vms_http_reqs[1].cookie = 1

\* C6: when the upstream rejects a request made with the cached session,
\* the collector has, by the end of the tick, signalled invalidation of
\* that token and made the request exactly twice in the tick.
C6_AuthRejectedInvalidatesAndRetries ==
    \A j \in 1 .. Len(vms_http_reqs) :
        (AuthRejected(vms_http_reqs[j].reply) /\ vms_pc = "idle") =>
            /\ vms_http_reqs[j].cookie \in sess_invalidated
            /\ Len(vms_http_reqs) = 2

(***************************************************************************)
(* Missing credentials, discovery, empty payloads.                         *)
(***************************************************************************)
HighSeverity == {"warning", "error", "critical"}
HighCount(log) == Cardinality({ j \in 1 .. Len(log) : log[j] \in HighSeverity })

\* C7: a GpuPluginCollector constructed without a legacy context issues no
\* HTTP request and logs the condition at warning or higher at most once.
C7_MissingCredentialsLoggedOnce ==
    ~gpu_legacy_ctx =>
        /\ gpu_dashboard_reqs = <<>>
        /\ gpu_stats_reqs = <<>>
        /\ HighCount(gpu_skip_log) <= 1

\* C8: the /Dashboard requests of a GpuPluginCollector instance all belong
\* to one tick.
C8_DashboardOnOneTick ==
    \A i, j \in 1 .. Len(gpu_dashboard_reqs) :
        gpu_dashboard_reqs[i] = gpu_dashboard_reqs[j]

\* C9: parse() of the empty payload returns the empty sequence and does not
\* raise, in every state of the collector.
C9_EmptyPayloadParsesToNothing ==
    (parse_call.coll # "none" /\ parse_call.data.k = "dict"
        /\ parse_call.data.empty)
        => parse_call.out = Returned(<<>>)

(***************************************************************************)
(* The endpoint binding.                                                   *)
(***************************************************************************)
\* C11: every step leaves a resolved endpoint as it is and starts no new
\* probe, and leaves a finished discovery finished: the binding only moves
\* from unresolved to resolved or from unresolved to exhausted.
C11_BindingMutatedAtMostOnce ==
    [][ /\ coral_endpoint # 0 =>
              /\ coral_endpoint' = coral_endpoint
              /\ coral_endpoint_checked'
              /\ Len(coral_probes') = Len(coral_probes)
        /\ coral_endpoint_checked =>
              /\ coral_endpoint_checked'
              /\ coral_endpoint' = coral_endpoint ]_vars

\* The second candidate was resolved on tick 1; ticks 2 and 3 fetched from
\* it and the data request of tick 3 raised; the binding is still candidate 2.
C11_Witness ==
    /\ coral_endpoint = 2
    /\ Len(coral_probes) = 2
    /\ coral_data_reqs = << 1, 2, 3 >>
    /\ tick_last.tick = 3
    /\ tick_last.fetch_raised

(***************************************************************************)
(* Structured queries.                                                     *)
(***************************************************************************)
\* C12: a completed tick of MemoryCollector issued exactly one structured
\* query, and when its querying raised, fetch() returned the empty payload.
C12_OneQueryPerTick ==
    (tick_last.coll = "memory" /\ mem_pc = "idle") =>
        /\ Len(mem_queries) = 1
        /\ tick_last.fetch_raised => tick_last.raw = MemEmpty

(***************************************************************************)
(* parse() as a function.                                                  *)
(***************************************************************************)
\* VMsCollector.parse is suspended in get_session or in its HTTP request.
VmsParseSuspended == vms_pc \in {"session", "http"}

\* C13: parse() never suspends on a network operation and issues no HTTP
\* request: VMsCollector.parse is never waiting for the session or for a
\* reply, and no request of its own is on record.
C13_ParseDoesNoIO ==
    /\ ~VmsParseSuspended
    /\ vms_http_reqs = <<>>

\* C14: two successive parse() calls of one collector with equal input
\* return equal results, whatever the collector fetched in between.
C14_ParseIsAFunctionOfItsInput ==
    [][ ( /\ parse_call.coll # "none"
          /\ parse_call'.coll = parse_call.coll
          /\ parse_call'.data = parse_call.data )
        => parse_call'.out = parse_call.out ]_vars

\* Two updates are about the same Coral device: same type and same id.
SameDevice(u, v) ==
    /\ "id" \in DOMAIN u.attributes
    /\ "id" \in DOMAIN v.attributes
    /\ u.attributes.type = v.attributes.type
    /\ u.attributes.id = v.attributes.id

\* C15: when a device is present in the payloads of two consecutive ticks of
\* CoralTPUCollector, its presence entity has the same unique_id_suffix in
\* both ticks.
C15_StableIdentity ==
    [][ ( /\ tick_last.coll = "coral_tpu"
          /\ tick_last'.coll = "coral_tpu"
          /\ tick_last'.tick = tick_last.tick + 1 )
        => \A i \in 1 .. Len(tick_last.out.updates),
              j \in 1 .. Len(tick_last'.out.updates) :
              SameDevice(tick_last.out.updates[i], tick_last'.out.updates[j])
                  => tick_last.out.updates[i].unique_id_suffix
                       = tick_last'.out.updates[j].unique_id_suffix ]_vars

(***************************************************************************)
(* Partial payloads and numeric failures (array.py, docker.py).            *)
(***************************************************************************)
\* parse() returned an update with this unique_id_suffix.
Emitted(out, suffix) ==
    \E i \in 1 .. Len(out.updates) : out.updates[i].unique_id_suffix = suffix

AbsentOr(v, kind) == v.k \in {"missing", kind}

\* An array payload whose sub-objects and lists are objects and lists where
\* they are present; its scalar fields hold anything.
ArrayShapeOk(d) ==
    /\ d.array.k = "dict"
    /\ AbsentOr(d.array.capacity, "dict")
    /\ d.array.capacity.k = "dict" => AbsentOr(d.array.capacity.kilobytes, "dict")
    /\ AbsentOr(d.array.parities, "list")
    /\ d.array.parities.k = "list" =>
          \A i \in 1 .. Len(d.array.parities.l) : d.array.parities.l[i].k = "dict"

\* Every entity of an array payload that needs no numeric field: the array
\* state, and the status of every parity disk.
ArrayPlainEntities(d, out) ==
    /\ Emitted(out, <<"array_state">>)
    /\ d.array.parities.k = "list" =>
          \A i \in 1 .. Len(d.array.parities.l) :
              Emitted(out, <<"parity",
                             GetOr(d.array.parities.l[i].name, JStr("parity")),
                             "status">>)

\* C16: whatever the numeric fields of an array payload hold, parse() does
\* not raise and emits every entity that needs no numeric field.
C16_NumericFailureSparesSiblings ==
    (parse_call.coll = "array" /\ ArrayShapeOk(parse_call.data)) =>
        /\ ~parse_call.out.raised
        /\ ArrayPlainEntities(parse_call.data, parse_call.out)

\* A numeric field that is absent or holds a number.
NumberOrAbsent(v) == v.k \in {"missing", "num"}

ArrayNumbersOk(d) ==
    /\ ( d.array.capacity.k = "dict" /\ d.array.capacity.kilobytes.k = "dict" ) =>
          /\ NumberOrAbsent(d.array.capacity.kilobytes.total)
          /\ NumberOrAbsent(d.array.capacity.kilobytes.used)
          /\ NumberOrAbsent(d.array.capacity.kilobytes.free)
    /\ d.array.parities.k = "list" =>
          \A i \in 1 .. Len(d.array.parities.l) :
              /\ NumberOrAbsent(d.array.parities.l[i].temp)
              /\ NumberOrAbsent(d.array.parities.l[i].size)

\* A docker payload in which every part is absent or of its proper type.
ContainerShapeOk(c) ==
    /\ c.k = "dict"
    /\ AbsentOr(c.id, "str")
    /\ AbsentOr(c.state, "str")
    /\ AbsentOr(c.ports, "list")
    /\ \/ AbsentOr(c.names, "str")
       \/ c.names.k = "list" /\ \A i \in 1 .. Len(c.names.l) : c.names.l[i].k = "str"

DockerShapeOk(d) ==
    /\ AbsentOr(d.docker, "dict")
    /\ d.docker.k = "dict" =>
          /\ AbsentOr(d.docker.containers, "list")
          /\ d.docker.containers.k = "list" =>
                \A i \in 1 .. Len(d.docker.containers.l) :
                    ContainerShapeOk(d.docker.containers.l[i])

\* The state entity of every container that has a name.
DockerEntities(d, out) ==
    ( d.docker.k = "dict" /\ d.docker.containers.k = "list" ) =>
        \A i \in 1 .. Len(d.docker.containers.l) :
            LET c == d.docker.containers.l[i]
            IN Truthy(c.names) =>
                  Emitted(out, <<"docker", ContainerName(c.names), "state">>)

\* A coral payload whose pcie and usb lists are absent or lists of objects.
CoralShapeOk(d) ==
    /\ d.k = "dict"
    /\ AbsentOr(d.pcie, "list")
    /\ AbsentOr(d.usb, "list")
    /\ d.pcie.k = "list" =>
          \A i \in 1 .. Len(d.pcie.l) :
              d.pcie.l[i].k = "dict" /\ AbsentOr(d.pcie.l[i].id, "str")
    /\ d.usb.k = "list" => \A i \in 1 .. Len(d.usb.l) : d.usb.l[i].k = "dict"

\* The presence entity of every PCIe and USB device of the payload.
CoralPresenceEntities(d, out) ==
    /\ d.pcie.k = "list" =>
          \A i \in 1 .. Len(d.pcie.l) :
              Emitted(out, <<"coral_pcie",
                  StripApex(GetOr(d.pcie.l[i].id, JStr("unknown")).s), "presence">>)
    /\ d.usb.k = "list" =>
          \A i \in 1 .. Len(d.usb.l) :
              Emitted(out, <<"coral_usb", ToString(i - 1), "presence">>)

HoldsNumber(v) ==
    \/ v.k \in {"num", "qty"}
    \/ v.k = "str" /\ v.s \in NumericStrings
NumberIn(v) == IF v.k = "qty" THEN v.n ELSE FloatOf(v)

\* The only GPU record of a payload, and its utilization field.
GpuRecord(data) == data.items[1].rec
GpuUtil(data) ==
    GetField(GpuRecord(data), <<"util", "gpuutil", "utilization", "load">>)

\* The update with this suffix has this state.
EmittedWith(out, suffix, n) ==
    \A i \in 1 .. Len(out.updates) :
        out.updates[i].unique_id_suffix = suffix => out.updates[i].state = JNum(n)

GpuCall == parse_call.coll = "gpu_plugin" /\ Truthy(parse_call.data)

\* C17: every Load, Fan Speed, Power Usage and Temperature entity of
\* GpuPluginCollector.parse has as state the number its source field holds.
C17_NoPlaceholderState ==
    GpuCall =>
        LET r == GpuRecord(parse_call.data)
            u == GpuUtil(parse_call.data)
            out == parse_call.out
        IN /\ Emitted(out, <<"gpu0", "load">>) =>
                 HoldsNumber(u) /\ EmittedWith(out, <<"gpu0", "load">>, NumberIn(u))
           /\ Emitted(out, <<"gpu0", "fan">>) =>
                 HoldsNumber(r.fan)
                   /\ EmittedWith(out, <<"gpu0", "fan">>, NumberIn(r.fan))
           /\ Emitted(out, <<"gpu0", "power">>) =>
                 HoldsNumber(r.power)
                   /\ EmittedWith(out, <<"gpu0", "power">>, NumberIn(r.power))
           /\ Emitted(out, <<"gpu0", "temp">>) =>
                 HoldsNumber(r.temp)
                   /\ EmittedWith(out, <<"gpu0", "temp">>, NumberIn(r.temp))

\* C19: for a GPU record, the Load, Fan Speed, Power Usage and Temperature
\* entities are each emitted exactly when their own field holds a number,
\* whatever the other fields hold; with temp "N/A" and util "42%" the Load
\* and summary entities have state 42 and there is no Temperature entity.
C19_SiblingFieldsIndependent ==
    GpuCall =>
        LET r == GpuRecord(parse_call.data)
            u == GpuUtil(parse_call.data)
            out == parse_call.out
        IN /\ ~out.raised
           /\ Emitted(out, <<"gpu0", "load">>) <=> HoldsNumber(u)
           /\ Emitted(out, <<"gpu0", "fan">>) <=> HoldsNumber(r.fan)
           /\ Emitted(out, <<"gpu0", "power">>) <=> HoldsNumber(r.power)
           /\ Emitted(out, <<"gpu0", "temp">>) <=> HoldsNumber(r.temp)
           /\ ( r.temp = JStr("N/A") /\ u = Qty(42, "%") ) =>
                 /\ Emitted(out, <<"gpu0", "load">>)
                 /\ EmittedWith(out, <<"gpu0", "load">>, 42)
                 /\ Emitted(out, <<"gpu0", "summary">>)
                 /\ EmittedWith(out, <<"gpu0", "summary">>, 42)

\* The record {"temp": "N/A", "util": "42%"}: Load and summary, nothing else.
C19_Witness ==
    /\ GpuCall
    /\ GpuRecord(parse_call.data) =
          [GpuNoFields EXCEPT !.temp = JStr("N/A"), !.util = Qty(42, "%")]
    /\ Len(parse_call.out.updates) = 2
    /\ parse_call.out.updates[1].state = JNum(42)
    /\ parse_call.out.updates[2].unique_id_suffix = <<"gpu0", "summary">>

(***************************************************************************)
(* C20: the memory scenario, 16 GiB total and 8 GiB used.                  *)
(***************************************************************************)
\* The last tick of the memory collector had its queries answered, not
\* refused, by a server of the given kind.
MemAnsweredBy(schema) ==
    /\ tick_last.coll = "memory"
    /\ mem_pc = "idle"
    /\ gql_schema = schema
    /\ Len(mem_queries) >= 1
    /\ ~tick_last.fetch_raised

\* "Memory Total" with state 16.0 and "Memory Used" with state 8.0.
MemTotal16Used8(out) ==
    /\ ~out.raised
    /\ \E i \in 1 .. Len(out.updates) :
          /\ out.updates[i].name = <<"Memory Total">>
          /\ out.updates[i].state = JNum(1600)
    /\ \E i \in 1 .. Len(out.updates) :
          /\ out.updates[i].name = <<"Memory Used">>
          /\ out.updates[i].state = JNum(800)

\* C20 as stated: given the response {"memory": {"total": 17179869184,
\* "used": 8589934592}}, the memory collector yields "Memory Total" 16.0 and
\* "Memory Used" 8.0.
C20_MemoryKeyScenario ==
    MemAnsweredBy(MemoryKeySchema) => MemTotal16Used8(tick_last.out)

\* C20 amended: given the response {"info": {"memory": {"total":
\* 17179869184, "used": 8589934592}}}, the memory collector reports the
\* memory object as its graphql payload and yields "Memory Total" 16.0 and
\* "Memory Used" 8.0.
C20_InfoMemoryScenario ==
    MemAnsweredBy(1) =>
        /\ tick_last.raw = MemRaw("graphql", MemGiB16)
        /\ MemTotal16Used8(tick_last.out)

\* A tick answered {"info": {"memory": ..}}: Total 16.0, Used 8.0, Free 8.0.
C20_Witness ==
    /\ MemAnsweredBy(1)
    /\ mem_queries = <<1>>
    /\ Len(tick_last.out.updates) = 3
    /\ tick_last.out.updates[1].unique_id_suffix = <<"memory_total">>
    /\ tick_last.out.updates[1].state = JNum(1600)
    /\ tick_last.out.updates[2].unique_id_suffix = <<"memory_used">>
    /\ tick_last.out.updates[2].state = JNum(800)

(***************************************************************************)
(* C21: _extract_balanced_json.                                            *)
(***************************************************************************)
\* The number of backslashes that stand immediately before index j.
RECURSIVE BackslashRun(_, _)
BackslashRun(text, j) ==
    IF j <= 1 THEN 0
    ELSE IF text[j - 1] = "\\" THEN 1 + BackslashRun(text, j - 1)
    ELSE 0

\* Reading from index `from`: index j lies inside a double-quoted string.
\* A quote inside a string ends it unless an odd number of backslashes
\* stands before it.
RECURSIVE InsideString(_, _, _)
InsideString(text, from, j) ==
    IF j <= from THEN FALSE
    ELSE LET before == InsideString(text, from, j - 1)
             delimits == /\ text[j - 1] = "\""
                         /\ (~before \/ BackslashRun(text, j - 1) % 2 = 0)
         IN IF delimits THEN ~before ELSE before

\* Opening minus closing braces outside strings in from .. j.
BraceCount(text, from, j) ==
    Cardinality({ i \in from .. j : text[i] = "{" /\ ~InsideString(text, from, i) })
      - Cardinality({ i \in from .. j :
                        text[i] = "}" /\ ~InsideString(text, from, i) })

\* The indices at which the brace count is back to zero.
Closings(text, from) ==
    { j \in from .. Len(text) :
        /\ text[j] = "}"
        /\ ~InsideString(text, from, j)
        /\ BraceCount(text, from, j) = 0 }

MinOf(S) == CHOOSE x \in S : \A y \in S : x <= y

ExtractExpected(text) ==
    LET markers == { i \in 1 .. Len(text) : text[i] = Marker }
    IN IF markers = {} THEN NoneValue
       ELSE LET opens == { i \in MinOf(markers) + 1 .. Len(text) : text[i] = "{" }
            IN IF opens = {} THEN NoneValue
               ELSE IF Closings(text, MinOf(opens)) = {} THEN NoneValue
               ELSE TextValue(SubSeq(text, MinOf(opens),
                                     MinOf(Closings(text, MinOf(opens)))))

\* C21: _extract_balanced_json returns the substring from the first '{'
\* after the marker to the first '}' at which the braces outside
\* double-quoted strings (backslash escapes honoured) balance, and None when
\* the marker is absent, no '{' follows it, or the braces never balance.
C21_BalancedExtraction ==
    parse_call.coll = "extract_balanced_json" =>
        parse_call.out = ExtractExpected(parse_call.data)

\* A brace inside a string is not counted: {"}"} is returned whole.
C21_Witness ==
    /\ parse_call.coll = "extract_balanced_json"
    /\ parse_call.data = << Marker, "{", "\"", "}", "\"", "}" >>
    /\ parse_call.out = TextValue(<< "{", "\"", "}", "\"", "}" >>)

(***************************************************************************)
(* C22: the aliases of the utilization field.                              *)
(***************************************************************************)
Present(v) == v.k \notin {"missing", "null"}

\* The first of util, gpuutil, utilization, load that is present and not
\* null.
FirstAlias(r) ==
    IF Present(r.util) THEN r.util
    ELSE IF Present(r.gpuutil) THEN r.gpuutil
    ELSE IF Present(r.utilization) THEN r.utilization
    ELSE IF Present(r.load) THEN r.load
    ELSE JNull

\* A number, or a number with at most a percent sign.
PlainPercent(v) ==
    \/ v.k = "num"
    \/ v.k = "str" /\ v.s \in NumericStrings
    \/ v.k = "qty" /\ v.unit \in {"", "%"}

StatesOf(out, suffix) ==
    { out.updates[i].state :
        i \in { j \in 1 .. Len(out.updates) :
                  out.updates[j].unique_id_suffix = suffix } }

\* C22: the utilization of a GPU record is the value of the first of util,
\* gpuutil, utilization, load that is present and not null; the Load and
\* summary entities are emitted from that value alone and carry the same
\* state, and a later alias is never used while an earlier one is present.
C22_FirstAliasDecides ==
    GpuCall =>
        LET c == FirstAlias(GpuRecord(parse_call.data))
            out == parse_call.out
            load == StatesOf(out, <<"gpu0", "load">>)
            summary == StatesOf(out, <<"gpu0", "summary">>)
        IN /\ ~out.raised
           /\ (load # {}) <=> HoldsNumber(c)
           /\ summary # {} => summary = load
           /\ PlainPercent(c) =>
                 load = {JNum(NumberIn(c))} /\ summary = {JNum(NumberIn(c))}

\* util is null and gpuutil absent: utilization 7 decides, load "9%" is not
\* consulted.
C22_Witness ==
    /\ GpuCall
    /\ GpuRecord(parse_call.data) =
          [GpuNoFields EXCEPT !.util = JNull, !.utilization = JNum(7),
                              !.load = Qty(9, "%")]
    /\ StatesOf(parse_call.out, <<"gpu0", "load">>) = {JNum(7)}
    /\ StatesOf(parse_call.out, <<"gpu0", "summary">>) = {JNum(7)}

(***************************************************************************)
(* C23: the state entity of each named container.                          *)
(***************************************************************************)
HasNames(c) == Truthy(c.names)

\* The container list of a payload whose containers are objects with an id,
\* names and ports of the expected types; their state is any value.
DockerContainers(d) ==
    IF /\ d.k = "dict" /\ d.docker.k = "dict" /\ d.docker.containers.k = "list"
       /\ \A i \in 1 .. Len(d.docker.containers.l) :
             ContainerShapeOk([d.docker.containers.l[i] EXCEPT !.state = Missing])
    THEN d.docker.containers.l
    ELSE <<>>

IsRunning(st) == st.k = "str" /\ st.s \in {"running", "RUNNING"}

\* C23: DockerCollector.parse emits one binary_sensor per container with a
\* non-empty names field, in the order of the containers, with the suffix
\* docker_<first name without '/'>_state and the state ON exactly when the
\* container's state is 'running' in any case, OFF for any other or missing
\* state.
C23_OneStateEntityPerNamedContainer ==
    ( parse_call.coll = "docker" /\ DockerContainers(parse_call.data) # <<>> ) =>
        LET named == SelectSeq(DockerContainers(parse_call.data), HasNames)
            out == parse_call.out
        IN /\ ~out.raised
           /\ Len(out.updates) = Len(named)
           /\ \A i \in 1 .. Len(named) :
                 /\ out.updates[i].sensor_type = "binary_sensor"
                 /\ out.updates[i].unique_id_suffix =
                       <<"docker", ContainerName(named[i].names), "state">>
                 /\ out.updates[i].state =
                       JStr(IF IsRunning(named[i].state) THEN "ON" ELSE "OFF")

(***************************************************************************)
(* C24: the queries MemoryCollector tries in a tick.                       *)
(***************************************************************************)
\* Query q is tried before query p when w is the cached working query.
TriedBefore(q, p, w) == q # p /\ (q = w \/ (p # w /\ q < p))

\* The queries issued so far are the first ones of the order for w, each
\* once.
InTryOrder(queries, w) ==
    /\ \A i, j \in 1 .. Len(queries) :
          i < j => TriedBefore(queries[i], queries[j], w)
    /\ \A i \in 1 .. Len(queries) : \A q \in MemQueries :
          TriedBefore(q, queries[i], w) => \E j \in 1 .. i : queries[j] = q

MemSucceeded == tick_last.coll = "memory" /\ tick_last.raw.source = JStr("graphql")

\* In every state: at most three queries, in the order for the cached query
\* while the tick is running; a tick that got memory data ended with the
\* query it caches.
MemSelectionInv ==
    /\ Len(mem_queries) <= NumQueries
    /\ mem_pc = "query" =>
          ~mem_graphql_failed /\ InTryOrder(mem_queries, mem_working_query)
    /\ ( mem_pc = "idle" /\ MemSucceeded /\ mem_queries # <<>> ) =>
          mem_working_query = mem_queries[Len(mem_queries)]

\* In every step: the reply that ends a tick issues no further query; a tick
\* in which the cached query succeeds has issued one query; once GraphQL is
\* marked failed it stays so and no tick issues a query.
MemSelectionStep ==
    /\ ( mem_pc = "query" /\ mem_pc' = "idle" ) =>
          /\ mem_queries' = mem_queries
          /\ ( mem_working_query # 0 /\ mem_working_query' = mem_working_query
                /\ MemSucceeded' /\ tick_last'.tick = mem_ticks ) =>
                   mem_queries = << mem_working_query >>
    /\ ( mem_pc = "query" /\ mem_pc' = "query" ) =>
          /\ Len(mem_queries') = Len(mem_queries) + 1
          /\ mem_working_query' = mem_working_query
    /\ mem_graphql_failed =>
          /\ mem_graphql_failed'
          /\ mem_pc' = "idle"
          /\ mem_ticks' # mem_ticks => mem_queries' = <<>>

\* C24: while GraphQL is not marked failed a tick tries the cached working
\* query first and the others in declared order, each at most once, stops at
\* the first that yields memory data and caches it, so a tick in which the
\* cached query succeeds issues one query; once GraphQL is marked failed no
\* later tick issues a query.
C24_QuerySelection == []MemSelectionInv /\ [][MemSelectionStep]_vars

\* Query 2 is cached, then the API is unreachable: the tick tries 2, 1, 3 and
\* marks GraphQL failed.
C24_Witness ==
    /\ mem_working_query = 2
    /\ mem_queries = <<2, 1, 3>>
    /\ mem_graphql_failed
    /\ mem_pc = "idle"

(***************************************************************************)
(* C25: the GPU map.                                                       *)
(***************************************************************************)
GpuMapInv ==
    /\ gpu_gpus = NoneValue \/ (gpu_gpus.k = "dict" /\ gpu_gpus.items # <<>>)
    /\ gpu_pc = "stats" => gpu_gpus # NoneValue

GpuMapStep ==
    /\ gpu_gpus' # gpu_gpus => gpu_pc = "dashboard"
    /\ gpu_gpus # NoneValue =>
          gpu_gpus' = gpu_gpus /\ gpu_dashboard_reqs' = gpu_dashboard_reqs
    /\ gpu_stats_reqs' # gpu_stats_reqs /\ gpu_pc # "stats" =>
          gpu_gpus' # NoneValue

\* C25: GpuPluginCollector.gpus is None or a non-empty object in every state;
\* only a discovery assigns it; once it is not None no fetch() changes it or
\* requests /Dashboard again; the stats request is never issued while it is
\* None.
C25_GpuMapInvariant == []GpuMapInv /\ [][GpuMapStep]_vars

\* A second tick after a discovery: the map is kept, /Dashboard was
\* requested on tick 1 only, the stats request is out.
C25_Witness ==
    /\ gpu_gpus = GpuMapOfTwo
    /\ gpu_ticks = 2
    /\ gpu_pc = "stats"
    /\ gpu_dashboard_reqs = <<1>>

(***************************************************************************)
(* C26: discovery under overlapping fetch() invocations.                   *)
(***************************************************************************)
\* The discoveries started: each starts with a probe of the first candidate.
DiscoveriesStarted ==
    { j \in 1 .. Len(coral_probes) : coral_probes[j].cand = 1 }

\* C26: discovery runs at most once per CoralTPUCollector instance, also
\* when a second fetch() starts while the first is suspended in a probe; the
\* binding the first discovery chose is not overwritten.
C26_DiscoveryOnceUnderOverlap ==
    /\ [](Cardinality(DiscoveriesStarted) <= 1)
    /\ [][coral_endpoint # 0 => coral_endpoint' = coral_endpoint]_vars

(***************************************************************************)
(* C27: the Coral TPU Count entity.                                        *)
(***************************************************************************)
CoralCall ==
    /\ parse_call.coll = "coral_tpu"
    /\ parse_call.data.k = "dict"
    /\ AbsentOr(parse_call.data.pcie, "list")
    /\ AbsentOr(parse_call.data.usb, "list")

\* The presence sensors of one kind in a result.
PresenceOf(out, kind) ==
    { i \in 1 .. Len(out.updates) :
        /\ Len(out.updates[i].unique_id_suffix) = 3
        /\ out.updates[i].unique_id_suffix[1] = kind
        /\ out.updates[i].unique_id_suffix[3] = "presence" }

\* C27: parse() of a payload whose pcie and usb lists may hold entries that
\* are not objects does not raise, and a Coral TPU Count entity in its result
\* has as state the number of presence sensors in the result and as
\* pcie_count and usb_count the numbers of each kind.
C27_CountMatchesPresence ==
    CoralCall =>
        LET out == parse_call.out
        IN /\ ~out.raised
           /\ \A i \in 1 .. Len(out.updates) :
                 out.updates[i].unique_id_suffix = <<"coral_tpu_count">> =>
                   /\ out.updates[i].attributes.pcie_count =
                         Cardinality(PresenceOf(out, "coral_pcie"))
                   /\ out.updates[i].attributes.usb_count =
                         Cardinality(PresenceOf(out, "coral_usb"))
                   /\ out.updates[i].state =
                         JNum(Cardinality(PresenceOf(out, "coral_pcie"))
                                + Cardinality(PresenceOf(out, "coral_usb")))

(***************************************************************************)
(* C28: the VM state entities when the VM-specs request fails.             *)
(***************************************************************************)
\* The replies of /VMMachines.php that give no specs: a transport error, and
\* pages without a row that can be read.
NoSpecsReplies ==
    { HttpExc, Http(401, <<>>), Http(200, <<>>),
      Http(200, << VmRow("win11", JStr("auto"), JStr("N/A")) >>) }

\* The last tick had domains and its VM-specs request failed: it was not
\* made (no legacy context, or the session was not acquired), or its reply
\* gave no specs.
VmsSpecsFailed ==
    /\ tick_last.coll = "vms"
    /\ vms_pc = "idle"
    /\ VmsDomains(tick_last.raw).end = "specs"
    /\ \/ vms_http_reqs = <<>>
       \/ vms_http_reqs[Len(vms_http_reqs)].reply \in NoSpecsReplies

VmNamed(vm) == Truthy(vm.name)

\* C28: when the VM-specs request fails, VMsCollector.parse does not raise
\* and emits one 'VM <name> State' binary sensor per named domain, ON exactly
\* when the state contains 'running' in any case, and no vCPU or Memory
\* entity or attribute.
C28_StateEntitiesWithoutSpecs ==
    VmsSpecsFailed =>
        LET named == SelectSeq(VmsDomains(tick_last.raw).domains, VmNamed)
            out == tick_last.out
        IN /\ ~out.raised
           /\ Len(out.updates) = Len(named)
           /\ \A i \in 1 .. Len(named) :
                 /\ out.updates[i].sensor_type = "binary_sensor"
                 /\ out.updates[i].name = <<"VM", named[i].name, "State">>
                 /\ out.updates[i].state =
                       JStr(IF named[i].state \in {JStr("running"), JStr("RUNNING")}
                            THEN "ON" ELSE "OFF")
                 /\ out.updates[i].attributes.vcpus = 0
                 /\ out.updates[i].attributes.memory_mb = 0

(***************************************************************************)
(* C29: Memory Total, Used and Free are emitted together or not at all.    *)
(***************************************************************************)
MemMainSuffixes == { <<"memory_total">>, <<"memory_used">>, <<"memory_free">> }

\* parse() was called with a payload of the grid and returned.
MemCall ==
    /\ parse_call.coll = "memory"
    /\ parse_call.data \in MemGridPayloads
    /\ ~parse_call.out.raised

\* The number a field of the grid holds, 0 when it is absent or null.
MemField(v) == IF v.k = "num" THEN v.n ELSE 0

\* round(total / 2^30, 2) > 0: the total is above half a hundredth of a GiB.
MemTotalRoundsPositive(total) == 200 * total > MiBPerGiB

\* C29: every result of MemoryCollector.parse contains all three of
\* memory_total, memory_used and memory_free, exactly when the total rounds
\* to more than 0 GiB, or none of them; when free is missing or 0 and total
\* and used are positive, the bytes attribute of Memory Free is total - used;
\* no emitted GiB state is negative.
C29_MainSensorsTogether ==
    MemCall =>
        LET d == parse_call.data.data
            out == parse_call.out.updates
            sufs == { out[i].unique_id_suffix : i \in 1 .. Len(out) }
            total == MemField(d.total)
            used == MemField(d.used)
        IN /\ \/ MemMainSuffixes \subseteq sufs
              \/ MemMainSuffixes \cap sufs = {}
           /\ MemMainSuffixes \subseteq sufs <=> MemTotalRoundsPositive(total)
           /\ \A s \in MemMainSuffixes :
                 Cardinality({ i \in 1 .. Len(out) : out[i].unique_id_suffix = s }) <= 1
           /\ (MemField(d.free) = 0 /\ total > 0 /\ used > 0) =>
                 \A i \in 1 .. Len(out) :
                   out[i].unique_id_suffix = <<"memory_free">> =>
                     out[i].attributes.bytes = total - used
           /\ \A i \in 1 .. Len(out) : out[i].state.n >= 0

\* Used is above total and free is absent: the three sensors are emitted,
\* Memory Free with the negative difference in bytes and the state 0.
C29_Witness ==
    /\ MemCall
    /\ parse_call.data.data.total = JNum(16384)
    /\ parse_call.data.data.used = JNum(20000)
    /\ parse_call.data.data.free = Missing
    /\ \E i \in 1 .. Len(parse_call.out.updates) :
          /\ parse_call.out.updates[i].unique_id_suffix = <<"memory_free">>
          /\ parse_call.out.updates[i].attributes.bytes = 16384 - 20000
          /\ parse_call.out.updates[i].state = JNum(0)

(***************************************************************************)
(* C30: expire_after against the poll interval.                            *)
(***************************************************************************)
\* The intervals the three expressions are evaluated for: -MaxInterval .. MaxInterval.
MaxInterval == 300

\* self.interval of the collector whose parse() was called.
IntervalOf(coll) ==
    CASE coll = "gpu_plugin" -> gpu_interval
      [] coll = "coral_tpu" -> coral_interval
      [] OTHER -> mem_interval

\* C30: every EntityUpdate of gpu_plugin, coral_tpu and memory that carries
\* an expire_after has it strictly greater than the poll interval of its
\* collector, for every integer interval, and every EntityUpdate these
\* collectors emit with retain=False carries an expire_after.
C30_ExpiryAboveInterval ==
    /\ \A i \in (0 - MaxInterval) .. MaxInterval :
          /\ GpuExpireAfter(i).n > i
          /\ CoralExpireAfter(i).n > i
          /\ MemExpireAfter(i).n > i
    /\ (parse_call.coll \in {"gpu_plugin", "coral_tpu", "memory"}
          /\ ~parse_call.out.raised) =>
         \A j \in 1 .. Len(parse_call.out.updates) :
            LET u == parse_call.out.updates[j]
            IN /\ u.expire_after.k = "num" =>
                     u.expire_after.n > IntervalOf(parse_call.coll)
               /\ u.retain = FALSE => u.expire_after.k = "num"

\* A Coral payload at interval 45: the presence sensor is retained without
\* an expiry, the temperature sensor is not retained and expires after 90 s.
C30_Witness ==
    /\ parse_call.coll = "coral_tpu"
    /\ coral_interval = 45
    /\ ~parse_call.out.raised
    /\ \E j \in 1 .. Len(parse_call.out.updates) :
          /\ parse_call.out.updates[j].retain = TRUE
          /\ parse_call.out.updates[j].expire_after.k # "num"
    /\ \E j \in 1 .. Len(parse_call.out.updates) :
          /\ parse_call.out.updates[j].retain = FALSE
          /\ parse_call.out.updates[j].expire_after = JNum(90)

====
